---- MODULE Spec2Model ----
(***************************************************************************)
(* Verification model of pixelbot's backend:                               *)
(*   - the concurrency/retry shim (backend/utils.py, pxt_retry) and the    *)
(*     endpoints it is, or is not, applied to (backend/routers/*.py);      *)
(*   - the per-query pipeline of computed columns of agents.tools          *)
(*     (backend/setup_pixeltable.py) driven by POST /api/query             *)
(*     (backend/routers/chat.py), with the readers of that table           *)
(*     (backend/routers/history.py).                                       *)
(***************************************************************************)
EXTENDS Integers, Sequences, FiniteSets, TLC

VARIABLES
    rFn,        \* retry: the function (endpoint) one caller invokes
    rPlan,      \* retry: outcome of the store operation on each successive invocation
    rPc,        \* retry: position of the call: "call", "sleep", "returned", "raised"
    rAttempt,   \* retry: the loop variable `attempt` of wrapper
    rCalls,     \* retry: how many times fn has been invoked
    rWait,      \* retry: the local `wait`, in half seconds
    rSlept,     \* retry: total time slept, in half seconds
    rLastExc,   \* retry: the local `last_exc`
    rResult,    \* retry: what the caller got: a value or the exception raised
    onError,    \* pipeline: the error policy the store applies to Table.insert
    fails,      \* pipeline: the stages (and the read-back) that raised for the submitted row
    hasData,    \* pipeline: whether the searched collections hold matching items
    body,       \* pipeline: the request body (the query text)
    histFail,   \* pipeline: which chat-history insert raises, if any
    qPc,        \* pipeline: position of the POST /api/query handler
    row,        \* pipeline: the row being inserted: primary fields and cells
    table,      \* pipeline: the committed rows of agents.tools
    chat,       \* pipeline: the rows of agents.chat_history, oldest first
    result,     \* pipeline: the handler's read-back (result_data)
    resp,       \* pipeline: the handler's response to its caller
    lastRead,   \* pipeline: what the latest history endpoint answered
    cFn,        \* calls: the function one caller invokes
    cArgs,      \* calls: its arguments, and what the outside world does during the call
    cOut,       \* calls: what the call gave: a value or the exception raised
    reqs,       \* sessions: the state of each concurrent POST /api/query request
    clock,      \* sessions: the reading datetime.now() gives
    wReqs,      \* writes: the state of each concurrent persona or memory request
    personas,   \* writes: the rows of agents.user_personas, in insertion order
    memory,     \* writes: the rows of agents.memory_bank, in insertion order
    wResp       \* writes: what the latest update or delete request got

retryVars == <<rFn, rPlan, rPc, rAttempt, rCalls, rWait, rSlept, rLastExc, rResult>>

pipeVars == <<onError, fails, hasData, body, histFail, qPc, row, table, chat, result,
              resp, lastRead>>

callVars == <<cFn, cArgs, cOut>>

sessVars == <<reqs, clock>>

writeVars == <<wReqs, personas, memory, wResp>>

vars == <<retryVars, pipeVars, callVars, sessVars, writeVars>>

NoneVal == [kind |-> "none"]

\* The parts of the state that stay as they are when another part is exercised.
CallIdle ==
    /\ cFn = "none"
    /\ cArgs = NoneVal
    /\ cOut = NoneVal

SessIdle ==
    /\ reqs = <<>>
    /\ clock = 0

WriteIdle ==
    /\ wReqs = <<>>
    /\ personas = <<>>
    /\ memory = <<>>
    /\ wResp = NoneVal

PipeIdle ==
    /\ onError = "abort"
    /\ fails = {}
    /\ hasData = FALSE
    /\ body = NoneVal
    /\ histFail = "none"
    /\ qPc = "idle"
    /\ row = NoneVal
    /\ table = {}
    /\ chat = <<>>
    /\ result = NoneVal
    /\ resp = NoneVal
    /\ lastRead = NoneVal

(***************************************************************************)
(* Strings that the code parses character by character (serialized column  *)
(* expressions, timestamps): the character classes of its patterns.        *)
(***************************************************************************)
LowerChars ==
    { "a", "b", "c", "d", "e", "f", "g", "h", "i", "j", "k", "l", "m",
      "n", "o", "p", "q", "r", "s", "t", "u", "v", "w", "x", "y", "z" }
UpperChars ==
    { "A", "B", "C", "D", "E", "F", "G", "H", "I", "J", "K", "L", "M",
      "N", "O", "P", "Q", "R", "S", "T", "U", "V", "W", "X", "Y", "Z" }
\* \d.  The texts hold characters up to U+00FF, and the classes below are
\* those of Python's str patterns within that range.
DigitChars == {"0", "1", "2", "3", "4", "5", "6", "7", "8", "9"}
\* The letters and numerals from U+0080 to U+00FF.
LatinWordChars ==
    { "ª", "²", "³", "µ", "¹", "º", "¼", "½", "¾", "À", "Á", "Â",
      "Ã", "Ä", "Å", "Æ", "Ç", "È", "É", "Ê", "Ë", "Ì", "Í", "Î",
      "Ï", "Ð", "Ñ", "Ò", "Ó", "Ô", "Õ", "Ö", "Ø", "Ù", "Ú", "Û",
      "Ü", "Ý", "Þ", "ß", "à", "á", "â", "ã", "ä", "å", "æ", "ç",
      "è", "é", "ê", "ë", "ì", "í", "î", "ï", "ð", "ñ", "ò", "ó",
      "ô", "õ", "ö", "ø", "ù", "ú", "û", "ü", "ý", "þ", "ÿ" }
\* \w
WordChars == LowerChars \cup UpperChars \cup DigitChars \cup {"_"} \cup LatinWordChars
\* \s: space, \t, \n, \r, \f, the vertical tab, the four separators U+001C to
\* U+001F, the next-line character U+0085 and the no-break space U+00A0.
SpaceChars ==
    { " ", "\t", "\n", "\r", "\f", "", "", "", "", "", "", " " }

At(text, i) == SubSeq(text, i, i)

\* The last position of the run of word characters that starts at i.
WordEnd(text, i) ==
    CHOOSE e \in i..Len(text) :
        /\ e = Len(text) \/ At(text, e + 1) \notin WordChars
        /\ \A k \in (i + 1)..e : At(text, k) \in WordChars

\* \s*: the first position from i on that holds no white space.
SkipSpace(text, i) ==
    CHOOSE j \in i..(Len(text) + 1) :
        /\ j > Len(text) \/ At(text, j) \notin SpaceChars
        /\ \A k \in i..(j - 1) : At(text, k) \in SpaceChars

(***************************************************************************)
(* Exceptions and their text.  A message is a sequence of words, and       *)
(* `msg in err_str` is a search for a contiguous run of words.             *)
(***************************************************************************)
Exc(t, m) == [kind |-> "exc", type |-> t, msg |-> m]
HTTPExc(status, detail) == [kind |-> "exc", type |-> "HTTPException", status |-> status, msg |-> detail]
Val(v) == [kind |-> "val", v |-> v]

IsExc(o) == o.kind = "exc"
IsVal(o) == o.kind = "val"

\* str(exc): the message; an HTTPException prints as "<status>: <detail>".
ExcStr(e) ==
    IF e.type = "HTTPException" THEN <<ToString(e.status) \o ":">> \o e.msg ELSE e.msg

\* `pat in s` on word sequences.
Contains(s, pat) ==
    \E i \in 0..(Len(s) - Len(pat)) :
        \A j \in 1..Len(pat) : s[i + j] = pat[j]

_TRANSIENT_MESSAGES ==
    { <<"INTRANS">>,
      <<"This", "Connection", "is", "closed">>,
      <<"assert", "self._current_conn", "is", "not", "None">>,
      <<"not", "initialized">> }

_is_transient(exc) ==
    \/ exc.type = "AssertionError"
    \/ \E m \in _TRANSIENT_MESSAGES : Contains(ExcStr(exc), m)

max_attempts == 3
delay == 1        \* 0.5 s, in half seconds
backoff == 2

(***************************************************************************)
(* What the store can do on one operation: return a value or raise.        *)
(***************************************************************************)
StoreExcs ==
    { Exc("AssertionError", <<>>),
      Exc("ResourceClosedError", <<"This", "Connection", "is", "closed">>),
      Exc("ProgrammingError", <<"cursor", "INTRANS", "state">>),
      Exc("Error", <<"column", "not", "found">>) }

StoreOutcomes == {Val("v1"), Val("v2")} \cup StoreExcs

MaxPlan == 4

(***************************************************************************)
(* The functions a caller can invoke.  "mock" is a plain function that     *)
(* lets the store's outcome through; the others are endpoints.             *)
(***************************************************************************)
Endpoints ==
    { "get_workflow_detail", "download_chat_history", "debug_export",
      "delete_history_entry", "query",
      "get_personas", "create_persona", "update_persona", "delete_persona",
      "get_pipeline" }

Fns == {"mock"} \cup Endpoints

\* The endpoints that carry @pxt_retry().
Decorated(fn) ==
    fn \in {"mock", "get_workflow_detail", "download_chat_history", "debug_export", "get_pipeline"}

\* The endpoint bodies end in `except Exception as e: raise HTTPException(500, str(e))`.
EndpointBody(fn, o) ==
    IF fn = "mock" \/ IsVal(o) THEN o
    ELSE IF o.type = "HTTPException" THEN o
    ELSE HTTPExc(500, ExcStr(o))

\* The outcome of fn's i-th invocation, as its caller (the wrapper, if any) sees it.
FnOutcome(i) == EndpointBody(rFn, rPlan[i])

RetryInit ==
    /\ rFn \in Fns
    /\ rPlan \in [1..MaxPlan -> StoreOutcomes]
    /\ rPc = "call"
    /\ rAttempt = 1
    /\ rCalls = 0
    /\ rWait = delay
    /\ rSlept = 0
    /\ rLastExc = NoneVal
    /\ rResult = NoneVal
    /\ PipeIdle
    /\ CallIdle
    /\ SessIdle
    /\ WriteIdle

\* A plausible slip: the ceiling is taken one short (attempt == max_attempts - 1).
GivesUpEarly(exc, attempt) ==
    \/ ~_is_transient(exc)
    \/ attempt = max_attempts - 1

\* A plausible slip: the last attempt is not recognised (attempt == max_attempts + 1).
GivesUpLate(exc, attempt) ==
    \/ ~_is_transient(exc)
    \/ attempt = max_attempts + 1

\* `if not _is_transient(exc) or attempt == max_attempts: raise`
GivesUp(exc, attempt) ==
    \/ ~_is_transient(exc)
    \/ attempt = max_attempts

\* One pass of the loop body of wrapper: fn is invoked; its value is returned, its
\* exception is re-raised or kept in last_exc before the sleep.
WrapperInvoke ==
    /\ rPc = "call"
    /\ Decorated(rFn)
    /\ rAttempt <= max_attempts
    /\ rCalls < MaxPlan
    /\ rCalls' = rCalls + 1
    /\ LET o == EndpointBody(rFn, rPlan[rCalls + 1]) IN
         IF IsVal(o)
         THEN /\ rPc' = "returned"
              /\ rResult' = o
              /\ UNCHANGED rLastExc
         ELSE IF GivesUp(o, rAttempt)
         THEN /\ rPc' = "raised"
              /\ rResult' = o
              /\ UNCHANGED rLastExc
         ELSE /\ rPc' = "sleep"
              /\ rLastExc' = o
              /\ UNCHANGED rResult
    /\ UNCHANGED <<rFn, rPlan, rAttempt, rWait, rSlept>>
    /\ UNCHANGED <<pipeVars, callVars, sessVars, writeVars>>

\* `time.sleep(wait); wait *= backoff`, and the loop goes to its next attempt.
WrapperSleep ==
    /\ rPc = "sleep"
    /\ rSlept' = rSlept + rWait
    /\ rWait' = rWait * backoff
    /\ rAttempt' = rAttempt + 1
    /\ rPc' = "call"
    /\ UNCHANGED <<rFn, rPlan, rCalls, rLastExc, rResult>>
    /\ UNCHANGED <<pipeVars, callVars, sessVars, writeVars>>

\* The `raise last_exc` after the loop is never reached: with max_attempts >= 1 the
\* last pass of the loop returns or raises.

\* An endpoint without the decorator is invoked once by the framework.
DirectInvoke ==
    /\ rPc = "call"
    /\ ~Decorated(rFn)
    /\ rCalls' = rCalls + 1
    /\ LET o == EndpointBody(rFn, rPlan[rCalls + 1]) IN
         /\ rPc' = IF IsVal(o) THEN "returned" ELSE "raised"
         /\ rResult' = o
    /\ UNCHANGED <<rFn, rPlan, rAttempt, rWait, rSlept, rLastExc>>
    /\ UNCHANGED <<pipeVars, callVars, sessVars, writeVars>>

RetryNext == WrapperInvoke \/ WrapperSleep \/ DirectInvoke

SpecRetry == RetryInit /\ [][RetryNext]_vars

RetryDone == rPc \in {"returned", "raised"}

(***************************************************************************)
(* Claims about the retry shim.                                            *)
(***************************************************************************)
\* The first k invocations of fn all raised a transient exception.
TransientPrefix(k) ==
    \A j \in 1..k : IsExc(FnOutcome(j)) /\ _is_transient(FnOutcome(j))

\* C1: for a function wrapped by pxt_retry (ceiling 3): k = 0, 1 or 2 transient
\* failures followed by a value v make the wrapped call return v after exactly k+1
\* invocations; a non-transient exception on the first call means exactly one
\* invocation.
C1_RetryThenSuccess ==
    (RetryDone /\ Decorated(rFn)) =>
        /\ \A k \in 0..2 :
             (TransientPrefix(k) /\ IsVal(FnOutcome(k + 1))) =>
                 /\ rPc = "returned"
                 /\ rResult = FnOutcome(k + 1)
                 /\ rCalls = k + 1
        /\ (IsExc(FnOutcome(1)) /\ ~_is_transient(FnOutcome(1))) => rCalls = 1

\* Two transient failures, then the value, after exactly three invocations.
C1_Witness ==
    /\ RetryDone /\ Decorated(rFn)
    /\ TransientPrefix(2) /\ IsVal(FnOutcome(3))
    /\ rPc = "returned" /\ rCalls = 3 /\ rSlept = 3

\* C2: for a function wrapped by pxt_retry: a non-transient exception at any
\* attempt, or a transient one at the last attempt, is re-raised unchanged and
\* ends the call; the number of invocations never exceeds the ceiling; the call
\* ends by returning fn's value or raising an exception fn raised; it goes on
\* to a further attempt only after a transient exception below the ceiling.
C2_ReraiseOriginal ==
    Decorated(rFn) =>
        /\ rCalls <= max_attempts
        /\ rPc = "raised" =>
             /\ rResult = FnOutcome(rCalls)
             /\ IsExc(rResult)
             /\ (~_is_transient(rResult) \/ rCalls = max_attempts)
        /\ rPc = "returned" =>
             /\ rResult = FnOutcome(rCalls)
             /\ IsVal(rResult)
        /\ rPc = "sleep" =>
             /\ IsExc(FnOutcome(rCalls))
             /\ _is_transient(FnOutcome(rCalls))
             /\ rCalls < max_attempts
        /\ (rCalls > 0 /\ IsExc(FnOutcome(rCalls))
              /\ (~_is_transient(FnOutcome(rCalls)) \/ rCalls = max_attempts))
             => rPc = "raised"
        /\ RetryDone \/ ENABLED RetryNext

\* Three transient failures: the third is re-raised, and fn was invoked three times.
C2_Witness ==
    /\ Decorated(rFn) /\ rPc = "raised"
    /\ rCalls = max_attempts
    /\ TransientPrefix(3)
    /\ rResult = FnOutcome(3)

\* The store raised a transient exception on each of the first k invocations.
StoreTransientPrefix(k) ==
    \A j \in 1..k : IsExc(rPlan[j]) /\ _is_transient(rPlan[j])

\* C3: every endpoint that touches the record store runs under the shim: transient
\* store errors followed by a success within the attempt ceiling are not seen by
\* the caller, who gets the value.
C3_EveryEndpointRetried ==
    (RetryDone /\ rFn \in Endpoints) =>
        \A k \in 0..(max_attempts - 1) :
            (StoreTransientPrefix(k) /\ IsVal(rPlan[k + 1])) =>
                /\ rPc = "returned"
                /\ rResult = rPlan[k + 1]

\* C26: an AssertionError of the store, with or without a message, is
\* transient, and a decorated function or endpoint whose first store call
\* raises one is invoked again, also when its body re-raises exceptions as
\* HTTP 500.
C26_AssertionRetried ==
    /\ \A e \in StoreExcs : e.type = "AssertionError" => _is_transient(e)
    /\ (RetryDone /\ Decorated(rFn) /\ IsExc(rPlan[1]) /\ rPlan[1].type = "AssertionError")
          => rCalls >= 2

(***************************************************************************)
(* The query pipeline: the computed columns of agents.tools                *)
(* (backend/setup_pixeltable.py) and the functions they call               *)
(* (backend/functions.py).                                                 *)
(***************************************************************************)
\* Python values.  A dict is the record of its keys, whose values are Python
\* values; every other value is a record with a `kind`: None, a str (its
\* text), bytes (its byte values), an int, a list (its items).  A number that
\* the code only compares or formats (sim) is a TLA+ number, and a key whose
\* value is None and which the code reads with `.get(key)` is left out.
List(items) == [kind |-> "list", items |-> items]
Str(x) == [kind |-> "str", s |-> x]
Bytes(b) == [kind |-> "bytes", b |-> b]
PyInt(n) == [kind |-> "int", n |-> n]

\* isinstance(x, dict), and the keys of a dict.
IsDict(x) == "kind" \notin DOMAIN x \/ x.kind = "dict"
Keys(x) == DOMAIN x \ {"kind"}

\* type(x).__name__
TypeName(x) ==
    IF IsDict(x) THEN "dict"
    ELSE CASE x.kind = "none" -> "NoneType"
           [] OTHER -> x.kind

\* A plausible slip: `if x is not False`, which lets None through.
TruthyButNone(x) ==
    IF IsDict(x) THEN Keys(x) # {}
    ELSE CASE x.kind = "none" -> TRUE
           [] x.kind = "list" -> x.items # <<>>
           [] x.kind = "str" -> x.s # ""
           [] x.kind = "bytes" -> x.b # <<>>
           [] x.kind = "int" -> x.n # 0
           [] OTHER -> TRUE

\* Python truthiness of a value.
Truthy(x) ==
    IF IsDict(x) THEN Keys(x) # {}
    ELSE CASE x.kind = "none" -> FALSE
           [] x.kind = "list" -> x.items # <<>>
           [] x.kind = "str" -> x.s # ""
           [] x.kind = "bytes" -> x.b # <<>>
           [] x.kind = "int" -> x.n # 0
           [] OTHER -> TRUE

\* item.get(key, default) on a dict.
DictGet(item, key, default) == IF key \in DOMAIN item THEN item[key] ELSE default

\* `for item in x`: the items of a list, the characters of a str, the byte
\* values of bytes, the keys of a dict (in the dict's order; the record has
\* none, so one order is fixed).  Any other value is not iterable.
Iterable(x) == IsDict(x) \/ x.kind \in {"list", "str", "bytes"}

Iter(x) ==
    IF IsDict(x)
    THEN LET order == CHOOSE q \in [1..Cardinality(Keys(x)) -> Keys(x)] :
                          \A i, j \in DOMAIN q : q[i] = q[j] => i = j
         IN  [i \in DOMAIN order |-> Str(order[i])]
    ELSE CASE x.kind = "list" -> x.items
           [] x.kind = "str" -> [i \in 1..Len(x.s) |-> Str(SubSeq(x.s, i, i))]
           [] x.kind = "bytes" -> [i \in 1..Len(x.b) |-> PyInt(x.b[i])]

\* The exceptions Python raises for a value of the wrong type.
NotIterable(x) ==
    [kind |-> "exc", type |-> "TypeError",
     msg |-> <<"'" \o TypeName(x) \o "'", "object", "is", "not", "iterable">>]
NotReversible(x) ==
    [kind |-> "exc", type |-> "TypeError",
     msg |-> <<"'" \o TypeName(x) \o "'", "object", "is", "not", "reversible">>]
NotSubscriptable(x) ==
    [kind |-> "exc", type |-> "TypeError",
     msg |-> IF IsDict(x) THEN <<"unhashable", "type:", "'slice'">>
             ELSE <<"'" \o TypeName(x) \o "'", "object", "is", "not", "subscriptable">>]
NoAttribute(x, attr) ==
    [kind |-> "exc", type |-> "AttributeError",
     msg |-> <<"'" \o TypeName(x) \o "'", "object", "has", "no", "attribute",
               "'" \o attr \o "'">>]

\* str(x): the text itself, "None", the digits of an int; for any other value
\* the text Python prints for it, kept as that value.
PyStr(x) ==
    IF IsDict(x) THEN [kind |-> "str", s |-> "repr", of |-> x]
    ELSE CASE x.kind = "str" -> x
           [] x.kind = "none" -> Str("None")
           [] x.kind = "int" -> Str(ToString(x.n))
           [] OTHER -> [kind |-> "str", s |-> "repr", of |-> x]

\* x[:n] and len(x) on a str, bytes or a list.
Sliceable(x) == ~IsDict(x) /\ x.kind \in {"str", "bytes", "list"}
Sized(x) == CASE x.kind = "str" -> x.s [] x.kind = "bytes" -> x.b [] x.kind = "list" -> x.items
Slice(x, n) ==
    LET Cut(q) == SubSeq(q, 1, IF Len(q) < n THEN Len(q) ELSE n)
    IN  CASE x.kind = "str" -> Str(Cut(x.s))
          [] x.kind = "bytes" -> Bytes(Cut(x.b))
          [] x.kind = "list" -> List(Cut(x.items))

RECURSIVE basename(_)
\* os.path.basename: what follows the last "/".
basename(path) ==
    IF Len(path) = 0 \/ SubSeq(path, Len(path), Len(path)) = "/" THEN ""
    ELSE basename(SubSeq(path, 1, Len(path) - 1)) \o SubSeq(path, Len(path), Len(path))

\* The characters U+0001 to U+00FF, by code point (U+0060 cannot be written in
\* a string here: its place holds a space and decode keeps it as bytes).
Latin1 ==
    "\t\n\f\r "
    \o "!\"#$%&'()*+,-./0123456789:;<=>?@"
    \o "ABCDEFGHIJKLMNOPQRSTUVWXYZ[\\]^_ "
    \o "abcdefghijklmnopqrstuvwxyz{|}~"
    \o " "
    \o "¡¢£¤¥¦§¨©ª«¬­®¯°±²³´µ¶·¸¹º»¼½¾¿À"
    \o "ÁÂÃÄÅÆÇÈÉÊËÌÍÎÏÐÑÒÓÔÕÖ×ØÙÚÛÜÝÞßà"
    \o "áâãäåæçèéêëìíîïðñòóôõö÷øùúûüýþÿ"

\* bytes.decode("utf-8"): the bytes are a run of well-formed sequences, or
\* the first ill-formed one raises UnicodeDecodeError.
Utf8Cont(b, k) == k <= Len(b) /\ b[k] >= 128 /\ b[k] <= 191

Utf8Second(b, i) ==
    /\ i + 1 <= Len(b)
    /\ CASE b[i] = 224 -> b[i + 1] >= 160 /\ b[i + 1] <= 191
         [] b[i] = 237 -> b[i + 1] >= 128 /\ b[i + 1] <= 159
         [] b[i] = 240 -> b[i + 1] >= 144 /\ b[i + 1] <= 191
         [] b[i] = 244 -> b[i + 1] >= 128 /\ b[i + 1] <= 143
         [] OTHER -> b[i + 1] >= 128 /\ b[i + 1] <= 191

Utf8Need(c) ==
    IF c < 128 THEN 1
    ELSE IF c >= 194 /\ c <= 223 THEN 2
    ELSE IF c >= 224 /\ c <= 239 THEN 3
    ELSE IF c >= 240 /\ c <= 244 THEN 4
    ELSE 0

\* The number of bytes from i on that form a well-formed start of a sequence.
Utf8Good(b, i) ==
    LET need == Utf8Need(b[i])
    IN  IF need <= 1 THEN need
        ELSE IF ~Utf8Second(b, i) THEN 1
        ELSE IF need = 2 THEN 2
        ELSE IF ~Utf8Cont(b, i + 2) THEN 2
        ELSE IF need = 3 THEN 3
        ELSE IF ~Utf8Cont(b, i + 3) THEN 3
        ELSE 4

RECURSIVE Utf8FirstBad(_, _)
\* The position of the first ill-formed sequence from i on, 0 when there is none.
Utf8FirstBad(b, i) ==
    IF i > Len(b) THEN 0
    ELSE IF Utf8Good(b, i) = Utf8Need(b[i]) /\ Utf8Need(b[i]) > 0
    THEN Utf8FirstBad(b, i + Utf8Need(b[i]))
    ELSE i

HexDigits == "0123456789abcdef"
Hex(n) ==
    "0x" \o SubSeq(HexDigits, (n \div 16) + 1, (n \div 16) + 1)
         \o SubSeq(HexDigits, (n % 16) + 1, (n % 16) + 1)

\* UnicodeDecodeError for the ill-formed sequence at position i.
UnicodeDecodeError(b, i) ==
    LET need == Utf8Need(b[i])
        good == Utf8Good(b, i)
        ended == need > 0 /\ i + good > Len(b)
        last == IF need = 0 THEN i ELSE IF ended THEN Len(b) ELSE i + good - 1
        where == IF last = i
                 THEN <<"byte", Hex(b[i]), "in", "position", ToString(i - 1) \o ":">>
                 ELSE <<"bytes", "in", "position",
                        ToString(i - 1) \o "-" \o ToString(last - 1) \o ":">>
        why == IF need = 0 THEN <<"invalid", "start", "byte">>
               ELSE IF ended THEN <<"unexpected", "end", "of", "data">>
               ELSE <<"invalid", "continuation", "byte">>
    IN  [kind |-> "exc", type |-> "UnicodeDecodeError",
         msg |-> <<"'utf-8'", "codec", "can't", "decode">> \o where \o why]

RECURSIVE Utf8Text(_, _)
\* The text of well-formed bytes whose characters are U+0001 to U+00FF.
Utf8Text(b, i) ==
    IF i > Len(b) THEN ""
    ELSE IF b[i] < 128
    THEN SubSeq(Latin1, b[i], b[i]) \o Utf8Text(b, i + 1)
    ELSE SubSeq(Latin1, (b[i] - 192) * 64 + (b[i + 1] - 128),
                (b[i] - 192) * 64 + (b[i + 1] - 128)) \o Utf8Text(b, i + 2)

\* The decoded str, or the exception.  A text with a character outside
\* U+0001..U+00FF is kept as the bytes that encode it.
decode(x) ==
    LET bad == Utf8FirstBad(x.b, 1)
        plain == \A i \in 1..Len(x.b) : x.b[i] \notin {0, 96} /\ x.b[i] <= 195
    IN  IF bad # 0 THEN UnicodeDecodeError(x.b, bad)
        ELSE [kind |-> "val",
              v |-> IF plain THEN Str(Utf8Text(x.b, 1))
                    ELSE [kind |-> "str", s |-> "text", utf8 |-> x.b]]

Reverse(s) == [i \in 1..Len(s) |-> s[Len(s) + 1 - i]]

Stages ==
    { "initial_response", "tool_output",
      "doc_context", "image_context", "video_frame_context",
      "memory_context", "chat_memory_context", "history_context",
      "multimodal_context_summary", "final_prompt_messages",
      "final_response", "answer",
      "follow_up_input_message", "follow_up_raw_response", "follow_up_text" }

RetrievalStages ==
    { "doc_context", "image_context", "video_frame_context",
      "memory_context", "chat_memory_context" }

\* A plausible slip: text fusion is declared without its tool_output argument.
ColumnDepsFusionEarly(s) ==
    CASE s = "tool_output" -> {"initial_response"}
      [] s = "multimodal_context_summary" ->
            {"doc_context", "memory_context", "chat_memory_context"}
      [] s = "final_prompt_messages" ->
            {"history_context", "multimodal_context_summary",
             "image_context", "video_frame_context"}
      [] s = "final_response" -> {"final_prompt_messages"}
      [] s = "answer" -> {"final_response"}
      [] s = "follow_up_input_message" -> {"answer"}
      [] s = "follow_up_raw_response" -> {"follow_up_input_message"}
      [] s = "follow_up_text" -> {"follow_up_raw_response"}
      [] OTHER -> {}

\* A plausible slip: message assembly is declared without its image_context argument.
ColumnDepsMessagesEarly(s) ==
    CASE s = "tool_output" -> {"initial_response"}
      [] s = "multimodal_context_summary" ->
            {"tool_output", "doc_context", "memory_context", "chat_memory_context"}
      [] s = "final_prompt_messages" ->
            {"history_context", "multimodal_context_summary", "video_frame_context"}
      [] s = "final_response" -> {"final_prompt_messages"}
      [] s = "answer" -> {"final_response"}
      [] s = "follow_up_input_message" -> {"answer"}
      [] s = "follow_up_raw_response" -> {"follow_up_input_message"}
      [] s = "follow_up_text" -> {"follow_up_raw_response"}
      [] OTHER -> {}

\* The columns each computed column's expression refers to.
ColumnDeps(s) ==
    CASE s = "tool_output" -> {"initial_response"}
      [] s = "multimodal_context_summary" ->
            {"tool_output", "doc_context", "memory_context", "chat_memory_context"}
      [] s = "final_prompt_messages" ->
            {"history_context", "multimodal_context_summary",
             "image_context", "video_frame_context"}
      [] s = "final_response" -> {"final_prompt_messages"}
      [] s = "answer" -> {"final_response"}
      [] s = "follow_up_input_message" -> {"answer"}
      [] s = "follow_up_raw_response" -> {"follow_up_input_message"}
      [] s = "follow_up_text" -> {"follow_up_raw_response"}
      [] OTHER -> {}

RECURSIVE Dependents(_)
\* The columns that depend, directly or not, on column s.
Dependents(s) ==
    LET direct == {t \in Stages : s \in ColumnDeps(t)}
    IN  direct \cup UNION {Dependents(t) : t \in direct}

DEFAULT_USER_ID == "local_user"
INITIAL_SYSTEM_PROMPT == "initial-default"
FINAL_SYSTEM_PROMPT == "final-default"
DEFAULT_MAX_TOKENS == 1024
DEFAULT_TEMPERATURE == 7        \* 0.7, in tenths
Sentinel == "Error: Answer not generated."

RECURSIVE OrderBySimDesc(_)
\* `.order_by(sim, asc=False)`: the best item first; among equal similarities,
\* the one stored first.
OrderBySimDesc(items) ==
    IF items = <<>> THEN <<>>
    ELSE LET best == CHOOSE k \in 1..Len(items) :
                        /\ \A j \in 1..Len(items) : items[j].sim <= items[k].sim
                        /\ \A j \in 1..(k - 1) : items[j].sim < items[k].sim
             rest == [j \in 1..(Len(items) - 1) |->
                         IF j < best THEN items[j] ELSE items[j + 1]]
         IN  <<items[best]>> \o OrderBySimDesc(rest)

\* `.limit(n)`
Limit(items, n) == SubSeq(items, 1, IF Len(items) < n THEN Len(items) ELSE n)

\* Similarity of a chat-history row to the prompt, in tenths: a text is as
\* similar to itself as can be.
ChatSim(content, query_text) ==
    IF content = query_text THEN 10 ELSE IF content = "earlier question" THEN 9 ELSE 5

\* search_documents .. search_memory: the rows over the threshold, best first.
search_documents(query_text, user_id) ==
    List(IF hasData
         THEN <<[text |-> Str("chunk"), source_doc |-> Str("docs/report.pdf"), sim |-> 9]>>
         ELSE <<>>)

search_images(query_text, user_id) ==
    List(IF hasData THEN <<[encoded_image |-> Str("img-b64"), sim |-> 3]>> ELSE <<>>)

search_video_frames(query_text, user_id) ==
    List(IF hasData
         THEN <<[encoded_frame |-> Str("frame-b64"), source_video |-> Str("clip.mp4"),
                 sim |-> 3]>>
         ELSE <<>>)

search_memory(query_text, user_id) ==
    List(IF hasData
         THEN <<[content |-> Str("note"), type |-> Str("text"),
                 context_query |-> Str("why"), sim |-> 9]>>
         ELSE <<>>)

\* search_chat_history: the owner's chat rows with sim > 0.8 (at most 10).
ChatHits(rows, query_text, user_id) ==
    LET Hit(r) == r.user_id = user_id /\ ChatSim(r.content, query_text) > 8
        over == SelectSeq(rows, Hit)
        items == [k \in 1..Len(over) |->
                    [role |-> Str(over[k].role), content |-> Str(over[k].content),
                     sim |-> ChatSim(over[k].content, query_text)]]
    IN  List(Limit(OrderBySimDesc(items), 10))

search_chat_history(query_text, user_id) == ChatHits(chat, query_text, user_id)

\* A plausible slip: the history is read from the owner's earlier rows of
\* agents.tools, not from agents.chat_history.
get_recent_prompts(user_id, limit) ==
    LET own == {r \in table : r.user_id = user_id}
        n == IF Cardinality(own) < limit THEN Cardinality(own) ELSE limit
    IN  List([i \in 1..n |-> [role |-> Str("user"), content |-> Str("an earlier prompt")]])

\* get_recent_chat_history: the owner's latest `limit` rows, newest first.
RecentTurns(rows, user_id, limit) ==
    LET Own(r) == r.user_id = user_id
        newest == Reverse(SelectSeq(rows, Own))
        n == IF Len(newest) < limit THEN Len(newest) ELSE limit
    IN  List([i \in 1..n |->
                [role |-> Str(newest[i].role), content |-> Str(newest[i].content)]])

get_recent_chat_history(user_id, limit) == RecentTurns(chat, user_id, limit)

\* anthropic.messages: the reply is a function of the input and the settings.
LLM(system, input, max_tokens, temperature) ==
    [kind |-> "resp", system |-> system, input |-> input,
     max_tokens |-> max_tokens, temperature |-> temperature]

\* gemini.generate_content, with its fixed system instruction.
generate_content(contents) == [kind |-> "resp", system |-> "follow-up", input |-> contents]

\* One pass of a `for` loop's body over each item of x: per item, the value it
\* appends, nothing, or the exception it raises (which ends the loop there).
Skip == [kind |-> "skip"]
Loop(x, Body(_)) ==
    IF ~Iterable(x) THEN <<NotIterable(x)>>
    ELSE [i \in 1..Len(Iter(x)) |-> Body(Iter(x)[i])]

\* for item in reversed(x)
LoopReversed(x, Body(_)) ==
    IF ~Iterable(x) THEN <<NotReversible(x)>>
    ELSE [i \in 1..Len(Iter(x)) |-> Body(Iter(x)[Len(Iter(x)) + 1 - i])]

Raised(outs) == {i \in DOMAIN outs : outs[i].kind = "exc"}
FirstRaised(outs) == outs[CHOOSE i \in Raised(outs) : \A j \in Raised(outs) : i <= j]
Appended(outs) ==
    LET kept == SelectSeq(outs, IsVal)
    IN  [i \in 1..Len(kept) |-> kept[i].v]

\* The document section's line for one item, when it has a text.
DocItem(item) ==
    LET text == IF IsDict(item) THEN DictGet(item, "text", Str("")) ELSE PyStr(item)
        source == IF IsDict(item)
                  THEN DictGet(item, "source_doc", Str("Unknown Document"))
                  ELSE Str("Unknown Document")
        named == PyStr(source)
        source_name == IF "of" \in DOMAIN named
                       THEN [kind |-> "str", s |-> "basename", of |-> source]
                       ELSE Str(basename(named.s))
    IN  IF Truthy(text)
        THEN Val([source |-> source_name, text |-> PyStr(text)])
        ELSE Skip

\* `content[:n]` and `len(content) > n`, as the item descriptions print them.
Excerpt(content, n) ==
    IF ~Sliceable(content) THEN NotSubscriptable(content)
    ELSE Val([content |-> PyStr(Slice(content, n)), more |-> Len(Sized(content)) > n])

\* The memory section's description of one item.
MemoryItem(item) ==
    IF ~IsDict(item) THEN NoAttribute(item, "get")
    ELSE LET excerpt == Excerpt(DictGet(item, "content", Str("")), 100)
             language == DictGet(item, "language", NoneVal)
         IN  IF ~IsVal(excerpt) THEN excerpt
             ELSE Val([type |-> PyStr(DictGet(item, "type", Str("unknown"))),
                       language |-> IF Truthy(language) THEN PyStr(language) ELSE NoneVal,
                       context_query |->
                           PyStr(DictGet(item, "context_query", Str("Unknown Query"))),
                       sim |-> DictGet(item, "sim", NoneVal),
                       content |-> excerpt.v.content, more |-> excerpt.v.more])

\* The chat-search section's description of one item.
ChatItem(item) ==
    IF ~IsDict(item) THEN NoAttribute(item, "get")
    ELSE LET timestamp == DictGet(item, "timestamp", NoneVal)
             excerpt == Excerpt(DictGet(item, "content", Str("")), 150)
             datetime == IF IsDict(timestamp) THEN FALSE ELSE timestamp.kind = "datetime"
         IN  IF Truthy(timestamp) /\ ~datetime
             THEN NoAttribute(timestamp, "strftime")
             ELSE IF ~IsVal(excerpt) THEN excerpt
             ELSE Val([role |-> PyStr(DictGet(item, "role", Str("unknown"))),
                       time |-> IF Truthy(timestamp)
                                THEN [kind |-> "str", s |-> "strftime", of |-> timestamp]
                                ELSE Str("Unknown Time"),
                       sim |-> DictGet(item, "sim", NoneVal),
                       content |-> excerpt.v.content, more |-> excerpt.v.more])

\* assemble_multimodal_context: one section per input, "N/A" when it is missing
\* or empty or yields no line; the outcome is the text, or the first exception
\* a loop raises.
assemble_multimodal_context(question, tool_outputs, doc_context, memory_context, chat_memory_context) ==
    LET Section(context, Body(_)) == IF Truthy(context) THEN Loop(context, Body) ELSE <<>>
        Joined(outs) == IF Appended(outs) # <<>> THEN List(Appended(outs)) ELSE Str("N/A")
        doc_items == Section(doc_context, DocItem)
        memory_items == Section(memory_context, MemoryItem)
        chat_memory_items == Section(chat_memory_context, ChatItem)
        steps == doc_items \o memory_items \o chat_memory_items
    IN  IF Raised(steps) # {} THEN FirstRaised(steps)
        ELSE Val([kind |-> "str", s |-> "context",
                  question |-> question,
                  tool_results |->
                      IF Truthy(tool_outputs) THEN PyStr(tool_outputs) ELSE Str("N/A"),
                  document_context |-> Joined(doc_items),
                  memory_bank_context |-> Joined(memory_items),
                  chat_history_search_context |-> Joined(chat_memory_items)])

\* A history item's turn, when it has a role and a content.
HistoryItem(item) ==
    IF ~IsDict(item) THEN NoAttribute(item, "get")
    ELSE LET role == DictGet(item, "role", NoneVal)
             content == DictGet(item, "content", NoneVal)
         IN  IF Truthy(role) /\ Truthy(content)
             THEN Val([role |-> role, content |-> content])
             ELSE Skip

\* The block of one retrieved item that holds its payload under `key`.
MediaItem(item, key, type) ==
    IF ~(IsDict(item) /\ key \in Keys(item)) THEN Skip
    ELSE LET data == item[key]
             Block(text) ==
                 Val([type |-> Str(type),
                      source |-> [type |-> Str("base64"), media_type |-> Str("image/png"),
                                  data |-> text]])
         IN  IF ~IsDict(data) /\ data.kind = "bytes"
             THEN IF IsVal(decode(data)) THEN Block(decode(data).v) ELSE decode(data)
             ELSE IF ~IsDict(data) /\ data.kind = "str" THEN Block(data)
             ELSE Skip

\* assemble_final_messages: the history turns oldest first, then one user turn of
\* image blocks, video-frame blocks and the text block; or the first exception
\* a loop raises.
assemble_final_messages(history_context, multimodal_context_text, image_context, video_frame_context) ==
    LET ImageItem(item) == MediaItem(item, "encoded_image", "image")
        FrameItem(item) == MediaItem(item, "encoded_video_frame", "video_frame")
        history == IF Truthy(history_context)
                   THEN LoopReversed(history_context, HistoryItem) ELSE <<>>
        images == IF Truthy(image_context) THEN Loop(image_context, ImageItem) ELSE <<>>
        frames == IF Truthy(video_frame_context)
                  THEN Loop(video_frame_context, FrameItem) ELSE <<>>
        steps == history \o images \o frames
        final_user_content ==
            Appended(images) \o Appended(frames)
            \o <<[type |-> Str("text"), text |-> multimodal_context_text]>>
    IN  IF Raised(steps) # {} THEN FirstRaised(steps)
        ELSE Val(List(Appended(history)
                      \o <<[role |-> Str("user"), content |-> List(final_user_content)]>>))

assemble_follow_up_prompt(original_prompt, answer_text) ==
    [kind |-> "str", s |-> "follow-up prompt",
     original_prompt |-> original_prompt, answer_text |-> answer_text]

\* A cell of the row being inserted.
Pending == [st |-> "pending", v |-> NoneVal]
Value(v) == [st |-> "value", v |-> v]

\* The value a column's expression reads from another column: the cell's value,
\* None while it has none.
In(cells, s) == IF cells[s].st = "value" THEN cells[s].v ELSE NoneVal

\* The value of computed column s of row r, given the cells it reads.
StageValue(s, r, cells) ==
    CASE s = "initial_response" -> LLM(r.initial_system_prompt, Str(r.prompt), r.max_tokens, r.temperature)
      [] s = "tool_output" ->
            [kind |-> "tool_output", calls |-> In(cells, "initial_response")]
      [] s = "doc_context" -> search_documents(r.prompt, r.user_id)
      [] s = "image_context" -> search_images(r.prompt, r.user_id)
      [] s = "video_frame_context" -> search_video_frames(r.prompt, r.user_id)
      [] s = "memory_context" -> search_memory(r.prompt, r.user_id)
      [] s = "chat_memory_context" -> search_chat_history(r.prompt, r.user_id)
      [] s = "history_context" -> get_recent_chat_history(r.user_id, 4)
      [] s = "multimodal_context_summary" ->
            assemble_multimodal_context(r.prompt, In(cells, "tool_output"),
                In(cells, "doc_context"), In(cells, "memory_context"),
                In(cells, "chat_memory_context")).v
      [] s = "final_prompt_messages" ->
            assemble_final_messages(In(cells, "history_context"),
                In(cells, "multimodal_context_summary"),
                In(cells, "image_context"), In(cells, "video_frame_context")).v
      [] s = "final_response" ->
            LLM(r.final_system_prompt, In(cells, "final_prompt_messages"),
                r.max_tokens, r.temperature)
      [] s = "answer" ->
            [kind |-> "str", s |-> "the answer", of |-> In(cells, "final_response")]
      [] s = "follow_up_input_message" ->
            assemble_follow_up_prompt(r.prompt, In(cells, "answer"))
      [] s = "follow_up_raw_response" ->
            generate_content(In(cells, "follow_up_input_message"))
      [] s = "follow_up_text" ->
            [kind |-> "str", s |-> "the questions",
             of |-> In(cells, "follow_up_raw_response")]

\* A column can be evaluated once the columns its expression refers to have values.
Ready(s, cells) ==
    /\ cells[s].st = "pending"
    /\ \A d \in ColumnDeps(s) : cells[d].st = "value"

\* The cells after the evaluation of column s: its value; or, when the evaluation
\* raises, its error, which the columns depending on it inherit unevaluated.
EvalCell(s, r, cells, raises) ==
    IF raises
    THEN [t \in Stages |->
            IF t = s THEN [st |-> "failed", v |-> NoneVal]
            ELSE IF t \in Dependents(s) THEN [st |-> "inherited", v |-> NoneVal]
            ELSE cells[t]]
    ELSE [cells EXCEPT ![s] = Value(StageValue(s, r, cells))]

Resolved(cells) == \A s \in Stages : cells[s].st # "pending"

(***************************************************************************)
(* POST /api/query (backend/routers/chat.py) and the readers of            *)
(* agents.tools (backend/routers/history.py).                              *)
(***************************************************************************)
MaxFailures == 1

\* The columns whose evaluation raises in some behaviour: every computed
\* column (a model call, tool execution, a query against the store, a UDF, an
\* extraction from a model reply).
FailableStages == Stages

Queries == {"", "what is the price?"}
PersonaLookups == {"none", "found", "missing", "error"}

\* The llm_params of the persona found: here a dict with one of the two keys.
LlmParams == {[kind |-> "dict", max_tokens |-> 2048]}

\* llm_params.get(key, default), after `custom_data.get("llm_params") or {}`
ParamOr(llm_params, key, default) ==
    IF llm_params # NoneVal /\ key \in DOMAIN llm_params THEN llm_params[key] ELSE default

\* The store has two error policies for Table.insert: "abort" (the insert raises
\* and stores no row) and "ignore" (the row is stored, the failed cell holds None
\* and its error).  chat.py names none, so the store's default, "abort", applies;
\* "ignore" is covered as well, to show which results rest on the policy.
StorePolicies == {"abort", "ignore"}

\* The chat history left by earlier queries.
PriorChat ==
    << [role |-> "user", content |-> "earlier question", timestamp |-> -1,
        user_id |-> DEFAULT_USER_ID],
       [role |-> "assistant", content |-> "earlier answer", timestamp |-> 0,
        user_id |-> DEFAULT_USER_ID] >>

PipelineInit ==
    /\ onError \in StorePolicies
    /\ fails = {}
    /\ hasData \in BOOLEAN
    /\ body = NoneVal
    /\ histFail = "none"
    /\ qPc = "start"
    /\ row = NoneVal
    /\ table = {}
    /\ chat = IF hasData THEN PriorChat ELSE <<>>
    /\ result = NoneVal
    /\ resp = NoneVal
    /\ lastRead = NoneVal
    /\ rFn = "mock"
    /\ rPlan = [i \in 1..MaxPlan |-> Val("v1")]
    /\ rPc = "returned"
    /\ rAttempt = 1
    /\ rCalls = 1
    /\ rWait = delay
    /\ rSlept = 0
    /\ rLastExc = NoneVal
    /\ rResult = Val("v1")
    /\ CallIdle
    /\ SessIdle
    /\ WriteIdle

HTTPError(status, detail) == [status |-> status, detail |-> detail]

current_timestamp == 1

\* query(), up to the insert: the 400 for an empty query; the 500 when
\* pxt.get_table("agents.tools") raises; otherwise the persona lookup (whose
\* errors are logged and dropped) and the row handed to insert.
QueryValidate(q, persona, llm_params, raises) ==
    /\ qPc = "start"
    /\ body' = [query |-> q]
    /\ raises => q # ""
    /\ fails' = IF raises THEN fails \cup {"get_table"} ELSE fails
    /\ IF q = ""
       THEN /\ resp' = HTTPError(400, "Query text is required")
            /\ qPc' = "done"
            /\ UNCHANGED row
       ELSE IF raises
       THEN /\ resp' = HTTPError(500, "Error while opening agents.tools")
            /\ qPc' = "done"
            /\ UNCHANGED row
       ELSE /\ row' = [prompt |-> q,
                       timestamp |-> current_timestamp,
                       user_id |-> DEFAULT_USER_ID,
                       initial_system_prompt |->
                           IF persona = "found" THEN "initial-persona"
                           ELSE INITIAL_SYSTEM_PROMPT,
                       final_system_prompt |->
                           IF persona = "found" THEN "final-persona"
                           ELSE FINAL_SYSTEM_PROMPT,
                       max_tokens |->
                           IF persona = "found"
                           THEN ParamOr(llm_params, "max_tokens", DEFAULT_MAX_TOKENS)
                           ELSE DEFAULT_MAX_TOKENS,
                       temperature |->
                           IF persona = "found"
                           THEN ParamOr(llm_params, "temperature", DEFAULT_TEMPERATURE)
                           ELSE DEFAULT_TEMPERATURE,
                       cells |-> [s \in Stages |-> Pending]]
            /\ qPc' = "inserting"
            /\ UNCHANGED resp
    /\ UNCHANGED <<onError, hasData, histFail, table, chat, result, lastRead>>
    /\ UNCHANGED <<retryVars, callVars, sessVars, writeVars>>

\* Inside tool_agent.insert([row]): the store evaluates one computed column whose
\* inputs are resolved.  When the evaluation raises, the abort policy makes insert
\* raise (the row is not stored, and query() answers 500 from its
\* `except Exception`); the ignore policy records the error in the cell.
EvalStage(s, raises) ==
    /\ qPc = "inserting"
    /\ Ready(s, row.cells)
    /\ raises => (s \in FailableStages /\ Cardinality(fails) < MaxFailures)
    /\ fails' = IF raises THEN fails \cup {s} ELSE fails
    /\ IF raises /\ onError = "abort"
       THEN /\ row' = [row EXCEPT !.cells[s] = [st |-> "failed", v |-> NoneVal]]
            /\ resp' = HTTPError(500, "Error while evaluating computed column")
            /\ qPc' = "done"
       ELSE /\ row' = [row EXCEPT !.cells = EvalCell(s, row, row.cells, raises)]
            /\ UNCHANGED <<resp, qPc>>
    /\ UNCHANGED <<onError, hasData, body, histFail, table, chat, result, lastRead>>
    /\ UNCHANGED <<retryVars, callVars, sessVars, writeVars>>

\* insert returns: every cell is resolved and the row is stored.
InsertCommit ==
    /\ qPc = "inserting"
    /\ Resolved(row.cells)
    /\ table' = table \cup {row}
    /\ qPc' = "inserted"
    /\ UNCHANGED <<onError, fails, hasData, body, histFail, row, chat, result, resp,
                   lastRead>>
    /\ UNCHANGED <<retryVars, callVars, sessVars, writeVars>>

\* The rows of agents.tools a select sees: the stored ones.
VisibleRows == table

\* What a select returns for the chosen columns of the row r.
Project(r, columns) ==
    [timestamp |-> r.timestamp, cells |-> [s \in columns |-> r.cells[s]]]

ReadBackColumns ==
    { "answer", "doc_context", "image_context", "video_frame_context", "tool_output",
      "history_context", "memory_context", "chat_memory_context", "follow_up_text" }

\* item.get(key)
ItemGet(item, key) == IF key \in DOMAIN item THEN item[key] ELSE NoneVal

\* processed_image_context / processed_video_frame_context: for the items of
\* a retrieval result that carry a non-empty payload under `key`, a str or
\* bytes that are decoded, the payload alone (images) or with the item's sim
\* and timestamp (video frames); or the exception the loop raises (a value
\* that cannot be iterated, bytes that are not UTF-8).
Processed(context, key) ==
    LET Entry(item, payload) ==
            IF key = "encoded_image"
            THEN [encoded_image |-> payload]
            ELSE [encoded_frame |-> payload,
                  sim |-> ItemGet(item, "sim"),
                  timestamp |-> ItemGet(item, "timestamp")]
        Kept(item, payload) ==
            IF IsDict(payload) THEN Skip
            ELSE IF payload.kind = "bytes"
            THEN IF IsVal(decode(payload))
                 THEN Val(Entry(item, decode(payload).v)) ELSE decode(payload)
            ELSE IF payload.kind = "str" THEN Val(Entry(item, payload))
            ELSE Skip
        Item(item) ==
            IF ~IsDict(item) THEN Skip
            ELSE IF key \notin Keys(item) THEN Skip
            ELSE IF ~Truthy(item[key]) THEN Skip
            ELSE Kept(item, item[key])
        outs == IF Truthy(context) THEN Loop(context, Item) ELSE <<>>
    IN  IF Raised(outs) # {} THEN FirstRaised(outs) ELSE Val(Appended(outs))

\* query(): the read-back by (timestamp, user_id), and the 500 when it is empty
\* or when the select raises (`except Exception` at the end of query()); then
\* the image and video-frame contexts of the record are processed for the
\* response, before anything goes to the chat history, and an exception of
\* that processing is a 500 as well.
ReadBack(raises) ==
    /\ qPc = "inserted"
    /\ raises => Cardinality(fails) < MaxFailures
    /\ fails' = IF raises THEN fails \cup {"read_back"} ELSE fails
    /\ LET found == {r \in VisibleRows :
                        r.timestamp = current_timestamp /\ r.user_id = DEFAULT_USER_ID}
       IN  IF raises
           THEN /\ resp' = HTTPError(500, "Error while reading the record back")
                /\ qPc' = "done"
                /\ UNCHANGED result
           ELSE IF found = {}
           THEN /\ resp' = HTTPError(500, "No results found after processing query")
                /\ qPc' = "done"
                /\ UNCHANGED result
           ELSE LET result_data == Project(CHOOSE r \in found : TRUE, ReadBackColumns)
                    images == Processed(In(result_data.cells, "image_context"),
                                        "encoded_image")
                    frames == Processed(In(result_data.cells, "video_frame_context"),
                                        "encoded_frame")
                IN  /\ result' = result_data
                    /\ IF IsExc(images) \/ IsExc(frames)
                       THEN /\ resp' = HTTPError(500, ExcStr(IF IsExc(images) THEN images
                                                               ELSE frames))
                            /\ qPc' = "done"
                       ELSE /\ qPc' = "record_user"
                            /\ UNCHANGED resp
    /\ UNCHANGED <<onError, hasData, body, histFail, row, table, chat, lastRead>>
    /\ UNCHANGED <<retryVars, callVars, sessVars, writeVars>>

\* result_data.get(column): the cell's value, None for a cell without one.
Get(column) == In(result.cells, column)

\* A plausible slip: only `if answer:`.
ValidAnswerNonEmpty(answer) == Truthy(answer)

\* `answer and not answer.startswith("Error:")`
ValidAnswer(answer) ==
    /\ Truthy(answer)
    /\ answer.s \notin {Sentinel, "Error: other"}

\* query(): the user's turn goes to the chat history; an error of that insert is
\* logged and the assistant's turn is skipped.
RecordUserTurn(raises) ==
    /\ qPc = "record_user"
    /\ IF raises
       THEN /\ histFail' = "user"
            /\ qPc' = "respond"
            /\ UNCHANGED chat
       ELSE /\ chat' = Append(chat, [role |-> "user", content |-> body.query,
                                     timestamp |-> current_timestamp,
                                     user_id |-> DEFAULT_USER_ID])
            /\ qPc' = IF ValidAnswer(Get("answer")) THEN "record_assistant" ELSE "respond"
            /\ UNCHANGED histFail
    /\ UNCHANGED <<onError, fails, hasData, body, row, table, result, resp, lastRead>>
    /\ UNCHANGED <<retryVars, callVars, sessVars, writeVars>>

\* query(): a valid answer goes to the chat history as the assistant's turn.
RecordAssistantTurn(raises) ==
    /\ qPc = "record_assistant"
    /\ IF raises
       THEN /\ histFail' = "assistant"
            /\ UNCHANGED chat
       ELSE /\ chat' = Append(chat, [role |-> "assistant", content |-> Get("answer").s,
                                     timestamp |-> current_timestamp + 1,
                                     user_id |-> DEFAULT_USER_ID])
            /\ UNCHANGED histFail
    /\ qPc' = "respond"
    /\ UNCHANGED <<onError, fails, hasData, body, row, table, result, resp, lastRead>>
    /\ UNCHANGED <<retryVars, callVars, sessVars, writeVars>>

\* result_data.get("answer", "Error: Answer not generated."): the key is always
\* there, so this is the cell's value, None included.
ResponseAnswer == Get("answer")

\* query(): the response.  QueryResponse.answer is declared `str`: a None answer
\* fails its validation, and `except Exception` turns that into a 500.
Respond ==
    /\ qPc = "respond"
    /\ LET answer == ResponseAnswer
       IN  IF answer.kind # "str"
           THEN resp' = HTTPError(500, "validation error for QueryResponse: answer")
           ELSE resp' = [status |-> 200,
                         answer |-> answer,
                         has_doc_context |-> Truthy(Get("doc_context")),
                         has_image_context |-> Truthy(Get("image_context")),
                         has_tool_output |-> Truthy(Get("tool_output")),
                         has_history_context |-> Truthy(Get("history_context")),
                         has_memory_context |-> Truthy(Get("memory_context")),
                         has_chat_memory_context |-> Truthy(Get("chat_memory_context")),
                         image_context |->
                             Processed(Get("image_context"), "encoded_image").v,
                         video_frame_context |->
                             Processed(Get("video_frame_context"), "encoded_frame").v,
                         follow_up_text |-> Get("follow_up_text")]
    /\ qPc' = "done"
    /\ UNCHANGED <<onError, fails, hasData, body, histFail, row, table, chat, result,
                   lastRead>>
    /\ UNCHANGED <<retryVars, callVars, sessVars, writeVars>>

WorkflowDetailColumns == {"initial_response", "tool_output", "final_response", "answer"}
DownloadColumns == {"answer"}

ReaderColumns(endpoint) ==
    CASE endpoint = "download_chat_history" -> DownloadColumns
      [] endpoint = "debug_export" -> Stages \ {"follow_up_raw_response"}

Readers == {"download_chat_history", "debug_export"}

\* int(text), for a text of decimal digits.
RECURSIVE int(_)
int(text) ==
    LET DigitSeq == <<"0", "1", "2", "3", "4", "5", "6", "7", "8", "9">>
        last == At(text, Len(text))
    IN  IF Len(text) = 0 THEN 0
        ELSE 10 * int(SubSeq(text, 1, Len(text) - 1))
               + (CHOOSE d \in 0..9 : DigitSeq[d + 1] = last)

\* datetime.strptime(text, "%Y-%m-%d %H:%M:%S") or, with_fraction, with
\* ".%f" after it: the datetime, or None for its ValueError.  A field is one
\* or two digits (the year four, the fraction one to six, the day also a
\* space and a digit), the white space between date and time is any run of
\* it, and the fields have to name a date and a time of day.
strptime(text, with_fraction) ==
    LET end == Len(text) + 1
        Find(c, from) ==
            IF from > end THEN end
            ELSE CHOOSE i \in from..end :
                    /\ i = end \/ At(text, i) = c
                    /\ \A k \in from..(i - 1) : At(text, k) # c
        Numeric(field, lo, hi) ==
            /\ Len(field) \in lo..hi
            /\ \A k \in 1..Len(field) : At(field, k) \in DigitChars
        Cut(from, to) == IF from <= to /\ to < end THEN SubSeq(text, from, to) ELSE ""
        Leap(y) == (y % 4 = 0 /\ y % 100 # 0) \/ y % 400 = 0
        DaysIn(y, m) ==
            IF m = 2 THEN (IF Leap(y) THEN 29 ELSE 28)
            ELSE IF m \in {4, 6, 9, 11} THEN 30 ELSE 31
        Scale(n, digits) == n * 10 ^ (6 - digits)
        \* The fields as numbers: a date and a time of day, or the ValueError.
        Built(year, month, day, hour, minute, second, microsecond) ==
            IF /\ year >= 1
               /\ month \in 1..12
               /\ day \in 1..DaysIn(year, month)
               /\ hour \in 0..23
               /\ minute \in 0..59
               /\ second \in 0..59
            THEN [kind |-> "datetime", year |-> year, month |-> month, day |-> day,
                  hour |-> hour, minute |-> minute, second |-> second,
                  microsecond |-> microsecond]
            ELSE NoneVal
        \* The fields as texts: digits, of the lengths the directives take.
        Fields(year, month, day, day_len, hour, minute, second, fraction) ==
            IF /\ Numeric(year, 4, 4)
               /\ Numeric(month, 1, 2)
               /\ Numeric(day, 1, day_len)
               /\ Numeric(hour, 1, 2)
               /\ Numeric(minute, 1, 2)
               /\ Numeric(second, 1, 2)
               /\ with_fraction => Numeric(fraction, 1, 6)
            THEN Built(int(year), int(month), int(day), int(hour), int(minute), int(second),
                       IF with_fraction THEN Scale(int(fraction), Len(fraction)) ELSE 0)
            ELSE NoneVal
        \* The positions of the separators, found from left to right: the two
        \* "-", the start of the day (ds) and the white space after it (sp), the
        \* start of the time (t0), the two ":" and the ".".
        AtDot(d1, d2, ds, sp, t0, c1, c2, dot) ==
            IF t0 > sp
            THEN Fields(Cut(1, d1 - 1), Cut(d1 + 1, d2 - 1), Cut(ds, sp - 1),
                        IF ds = d2 + 2 THEN 1 ELSE 2,
                        Cut(t0, c1 - 1), Cut(c1 + 1, c2 - 1), Cut(c2 + 1, dot - 1),
                        Cut(dot + 1, Len(text)))
            ELSE NoneVal
        AtSecond(d1, d2, ds, sp, t0, c1, c2) ==
            AtDot(d1, d2, ds, sp, t0, c1, c2, IF with_fraction THEN Find(".", c2 + 1) ELSE end)
        AtMinute(d1, d2, ds, sp, t0, c1) == AtSecond(d1, d2, ds, sp, t0, c1, Find(":", c1 + 1))
        AtHour(d1, d2, ds, sp, t0) == AtMinute(d1, d2, ds, sp, t0, Find(":", t0))
        AtSpace(d1, d2, ds, sp) ==
            AtHour(d1, d2, ds, sp, IF sp >= end THEN end ELSE SkipSpace(text, sp))
        AtDay(d1, d2, ds) ==
            AtSpace(d1, d2, ds,
                    IF ds > end THEN end
                    ELSE CHOOSE i \in ds..end :
                            /\ i = end \/ At(text, i) \notin DigitChars
                            /\ \A k \in ds..(i - 1) : At(text, k) \in DigitChars)
        AtMonth(d1, d2) ==
            AtDay(d1, d2,
                  IF d2 + 1 < end /\ At(text, d2 + 1) = " " THEN d2 + 2 ELSE d2 + 1)
        AtYear(d1) == AtMonth(d1, Find("-", d1 + 1))
    IN  AtYear(Find("-", 1))

\* _parse_timestamp: the first format that parses; the 400 when none does.
_parse_timestamp(ts_str) ==
    LET FirstOf(fractional, plain) ==
            IF fractional # NoneVal THEN fractional
            ELSE IF plain # NoneVal THEN plain
            ELSE HTTPExc(400, "Invalid timestamp format. Expected YYYY-MM-DD HH:MM:SS[.ffffff]")
    IN  FirstOf(strptime(ts_str, TRUE), strptime(ts_str, FALSE))

\* The datetime of the clock reading n: n seconds into 2025.
Moment(n) ==
    [kind |-> "datetime", year |-> 2025, month |-> 1, day |-> 1, hour |-> 0,
     minute |-> 0, second |-> n, microsecond |-> 0]

\* What the callers of the history endpoints put in the path.
TimestampStrs == {"2025-01-01 00:00:01.000000", "2025-1-1 0:0:2", "2025-01-01T00:00:01"}

\* _parse_timestamp(timestamp_str) for each of these paths.
ParsedTimestamp == [t \in TimestampStrs |-> _parse_timestamp(t)]

\* The rows of agents.tools with the owner's user_id and the timestamp.
RowsAt(target_timestamp) ==
    {r \in VisibleRows : /\ Moment(r.timestamp) = target_timestamp
                         /\ r.user_id = DEFAULT_USER_ID}

\* download_chat_history / debug_export: a select of every row of the owner
\* in agents.tools, by another request, at any moment.
Read(endpoint) ==
    /\ qPc \notin {"idle", "start"}
    /\ lastRead' = [status |-> 200,
                    rows |-> {Project(r, ReaderColumns(endpoint)) :
                                r \in {v \in VisibleRows : v.user_id = DEFAULT_USER_ID}}]
    /\ UNCHANGED <<onError, fails, hasData, body, histFail, qPc, row, table, chat,
                   result, resp>>
    /\ UNCHANGED <<retryVars, callVars, sessVars, writeVars>>

\* get_workflow_detail, by another request at any moment: the 400 for a
\* timestamp that does not parse, the 404 when no row of the owner has it;
\* else the first row the select returns.
get_workflow_detail(timestamp_str) ==
    /\ qPc \notin {"idle", "start"}
    /\ LET Select(target_timestamp, result_df) ==
               IF target_timestamp.kind = "exc"
               THEN lastRead' = HTTPError(target_timestamp.status, target_timestamp.msg)
               ELSE IF result_df = {}
               THEN lastRead' = HTTPError(404, "Workflow entry not found")
               ELSE \E r \in result_df :
                       lastRead' = [status |-> 200,
                                    rows |-> {Project(r, WorkflowDetailColumns)}]
           At_(target_timestamp) ==
               Select(target_timestamp,
                      IF target_timestamp.kind = "exc" THEN {} ELSE RowsAt(target_timestamp))
       IN  At_(ParsedTimestamp[timestamp_str])
    /\ UNCHANGED <<onError, fails, hasData, body, histFail, qPc, row, table, chat,
                   result, resp>>
    /\ UNCHANGED <<retryVars, callVars, sessVars, writeVars>>

\* delete_history_entry, by another request at any moment: the rows of the
\* owner with the timestamp leave agents.tools; the 400 for a timestamp that
\* does not parse, the 404 when there was no such row.
delete_history_entry(timestamp_str) ==
    /\ qPc # "start"
    /\ LET Delete(target_timestamp, matching) ==
               IF target_timestamp.kind = "exc"
               THEN /\ lastRead' = HTTPError(target_timestamp.status, target_timestamp.msg)
                    /\ UNCHANGED table
               ELSE IF matching = {}
               THEN /\ lastRead' = HTTPError(404, "No entry found with that timestamp")
                    /\ UNCHANGED table
               ELSE /\ lastRead' = [status |-> 200, message |-> "History entry deleted",
                                    num_deleted |-> Cardinality(matching)]
                    /\ table' = table \ matching
           At_(target_timestamp) ==
               Delete(target_timestamp,
                      IF target_timestamp.kind = "exc" THEN {} ELSE RowsAt(target_timestamp))
       IN  At_(ParsedTimestamp[timestamp_str])
    /\ UNCHANGED <<onError, fails, hasData, body, histFail, qPc, row, chat, result, resp>>
    /\ UNCHANGED <<retryVars, callVars, sessVars, writeVars>>

PipelineNext ==
    \/ \E q \in Queries, p \in PersonaLookups, l \in LlmParams, raises \in BOOLEAN :
           QueryValidate(q, p, l, raises)
    \/ \E s \in Stages, raises \in BOOLEAN : EvalStage(s, raises)
    \/ InsertCommit
    \/ \E raises \in BOOLEAN : ReadBack(raises)
    \/ \E raises \in BOOLEAN : RecordUserTurn(raises)
    \/ \E raises \in BOOLEAN : RecordAssistantTurn(raises)
    \/ Respond
    \/ \E e \in Readers : Read(e)
    \/ \E t \in TimestampStrs : get_workflow_detail(t)
    \/ \E t \in TimestampStrs : delete_history_entry(t)

SpecPipeline == PipelineInit /\ [][PipelineNext]_vars

(***************************************************************************)
(* Claims about the query pipeline.                                        *)
(***************************************************************************)
Inserting == qPc = "inserting"

\* Column s is evaluated in this step: it gets its value or its own error.
Completes(s) ==
    /\ row.cells[s].st = "pending"
    /\ row'.cells[s].st \in {"value", "failed"}

\* The "Depends on" entries of the stage table, by column.
TableDeps(s) ==
    CASE s = "tool_output" -> {"initial_response"}
      [] s = "multimodal_context_summary" ->
            {"tool_output", "doc_context", "memory_context", "chat_memory_context",
             "history_context"}
      [] s = "final_prompt_messages" ->
            {"history_context", "multimodal_context_summary",
             "image_context", "video_frame_context"}
      [] s = "final_response" -> {"final_prompt_messages"}
      [] s = "answer" -> {"final_response"}
      [] s = "follow_up_input_message" -> {"answer"}
      [] s = "follow_up_raw_response" -> {"follow_up_input_message"}
      [] s = "follow_up_text" -> {"follow_up_raw_response"}
      [] OTHER -> {}

\* The same entries, with the recent-history fetch (4) taken out of text fusion's.
TableDepsAmended(s) ==
    IF s = "multimodal_context_summary"
    THEN TableDeps(s) \ {"history_context"}
    ELSE TableDeps(s)

\* C4, as stated: within one record no stage completes before every stage of its
\* "Depends on" entry has resolved; text fusion (5) after (2), (3a), (3d), (3e)
\* and the recent-history fetch (4).
C4_TableOrder ==
    [][Inserting =>
         \A s \in Stages : Completes(s) =>
             \A d \in TableDeps(s) : row.cells[d].st # "pending"]_vars

\* C4, amended: as stated, except that text fusion (5) waits for tool execution
\* (2) and the document, memory and chat-history retrievals (3a, 3d, 3e) only,
\* not for the recent-history fetch (4), which message assembly (6) waits for.
C4_ColumnOrder ==
    [][Inserting =>
         \A s \in Stages : Completes(s) =>
             \A d \in TableDepsAmended(s) : row.cells[d].st # "pending"]_vars

\* Text fusion has completed, after its four inputs, while the recent-history
\* fetch has not run yet.
C4_Witness ==
    /\ Inserting
    /\ row.cells["multimodal_context_summary"].st = "value"
    /\ \A d \in TableDepsAmended("multimodal_context_summary") :
           row.cells[d].st = "value"
    /\ row.cells["history_context"].st = "pending"

\* The stages in the order of the stage table.
TableOrder ==
    << "initial_response", "tool_output",
       "doc_context", "image_context", "video_frame_context",
       "memory_context", "chat_memory_context", "history_context",
       "multimodal_context_summary", "final_prompt_messages",
       "final_response", "answer",
       "follow_up_input_message", "follow_up_raw_response", "follow_up_text" >>

RECURSIVE InTableOrder(_, _, _)
\* The cells of row r when its stages are evaluated one after the other in the
\* order of the stage table, from position i on.
InTableOrder(r, cells, i) ==
    IF i > Len(TableOrder) THEN cells
    ELSE LET s == TableOrder[i]
         IN  InTableOrder(r, IF cells[s].st = "pending"
                             THEN EvalCell(s, r, cells, s \in fails)
                             ELSE cells, i + 1)

\* C5: the five retrievals (3a-3e) and the recent-history fetch (4) read primary
\* fields only; and whatever the order in which the store evaluated the stages
\* of a record, the stored record is the one a stage-by-stage evaluation in table
\* order gives for the same results of the external calls (compared when insert
\* returns, the chat history being what the stages read).
C5_OrderIndependent ==
    /\ \A s \in RetrievalStages \cup {"history_context"} : ColumnDeps(s) = {}
    /\ qPc = "inserted" =>
           /\ table \subseteq {row}
           /\ row.cells = InTableOrder(row, [s \in Stages |-> Pending], 1)

\* A record is stored whose stages all have values, retrieved items included.
C5_Witness ==
    /\ hasData
    /\ qPc = "inserted"
    /\ table # {}
    /\ \A r \in table : \A s \in Stages : r.cells[s].st = "value"
    /\ \A r \in table :
           r.cells["multimodal_context_summary"].v.document_context # Str("N/A")

Submitted == qPc = "done" /\ body.query # ""

NonFatalStages ==
    {"tool_output", "history_context", "follow_up_raw_response"} \cup RetrievalStages

\* C6: whatever non-fatal stages fail (tool execution, the retrievals, the
\* recent-history fetch, follow-up generation), the record reaches a state where
\* every stage has a value or a recorded error, and the submission returns a
\* response: the failure is not raised out of the pipeline.
C6_NonFatalAbsorbed ==
    (Submitted /\ fails \subseteq NonFatalStages) =>
        /\ row \in table
        /\ Resolved(row.cells)
        /\ resp.status = 200

Unresolved(s) == row # NoneVal /\ row.cells[s].st \in {"failed", "inherited"}

\* C8: whenever answer generation (7) or answer extraction (8) could not resolve,
\* the query endpoint returns a normal response whose answer is the sentinel
\* "Error: Answer not generated.".
C8_SentinelAnswer ==
    (Submitted /\ (Unresolved("final_response") \/ Unresolved("answer"))) =>
        /\ resp.status = 200
        /\ resp.answer = Str(Sentinel)

\* C9: when follow-up generation (10) fails for a record whose answer (8) was
\* computed, the response carries that answer, a null follow-up text, and the
\* request does not fail.
C9_FollowUpNonFatal ==
    (Submitted /\ fails = {"follow_up_raw_response"}
         /\ row.cells["answer"].st = "value") =>
        /\ resp.status = 200
        /\ resp.answer = row.cells["answer"].v
        /\ resp.follow_up_text = NoneVal

\* The section of the fused text, or the blocks of the final user turn, that the
\* retrieval stage s feeds show no results.
NoResults(s) ==
    LET fused == row.cells["multimodal_context_summary"].v
        turns == row.cells["final_prompt_messages"].v.items
        blocks == turns[Len(turns)].content.items
    IN  CASE s = "doc_context" -> fused.document_context = Str("N/A")
          [] s = "memory_context" -> fused.memory_bank_context = Str("N/A")
          [] s = "chat_memory_context" -> fused.chat_history_search_context = Str("N/A")
          [] s = "image_context" -> \A i \in 1..Len(blocks) : blocks[i].type # Str("image")
          [] s = "video_frame_context" ->
                \A i \in 1..Len(blocks) : blocks[i].type # Str("video_frame")

\* C10: when a retrieval of stage 3 fails, its modality counts as "no results"
\* (N/A in the fused text, no blocks in the messages) and the record goes on
\* through fusion, message assembly and answer generation.
C10_RetrievalFailureIsNoResults ==
    (Submitted /\ fails # {} /\ fails \subseteq RetrievalStages) =>
        /\ row \in table
        /\ \A s \in {"multimodal_context_summary", "final_prompt_messages",
                     "final_response", "answer"} : row.cells[s].st = "value"
        /\ \A s \in fails : NoResults(s)

\* C29: a query request that ends with an error response (HTTP 400 or 500)
\* leaves the store as it was before the request: no record in agents.tools
\* and no chat-history row of the request.
C29_ErrorLeavesNoTrace ==
    (qPc = "done" /\ resp.status \in {400, 500}) =>
        /\ table = {}
        /\ chat = IF hasData THEN PriorChat ELSE <<>>

(***************************************************************************)
(* Single calls of the functions of backend/functions.py and of the        *)
(* queries of backend/setup_pixeltable.py: the caller picks a function     *)
(* and its arguments, the outside world answers, the call returns or       *)
(* raises.                                                                 *)
(***************************************************************************)
\* The retry part of the state when the shim is not exercised.
RetryIdle ==
    /\ rFn = "mock"
    /\ rPlan = [i \in 1..MaxPlan |-> Val("v1")]
    /\ rPc = "returned"
    /\ rAttempt = 1
    /\ rCalls = 1
    /\ rWait = delay
    /\ rSlept = 0
    /\ rLastExc = NoneVal
    /\ rResult = Val("v1")

\* The registry handed to the model: three UDFs and two queries.
tools ==
    { "get_latest_news", "fetch_financial_data", "search_news",
      "search_video_transcripts", "search_audio_transcripts" }

\* What the outside world does during one tool call.
ToolWorlds(fn) ==
    CASE fn = "get_latest_news" ->
            { "no_api_key", "timeout", "request_exception", "status_500",
              "no_articles", "malformed_article", "ok" }
      [] fn = "search_news" -> {"raises", "no_results", "ok"}
      [] fn = "fetch_financial_data" ->
            {"raises", "no_info_no_history", "no_info_history", "ok"}
      [] fn \in {"search_video_transcripts", "search_audio_transcripts"} ->
            {"raises", "no_results", "ok"}

\* get_latest_news: every path of the try block and each except clause returns a string.
get_latest_news(topic, world) ==
    CASE world = "no_api_key" ->
            Val(Str("Error: NewsAPI key not found in environment variables."))
      [] world = "timeout" -> Val(Str("Error: NewsAPI request timed out."))
      [] world = "request_exception" -> Val(Str("Error making NewsAPI request: ..."))
      [] world = "status_500" -> Val(Str("Error: NewsAPI request failed (500): ..."))
      [] world = "no_articles" -> Val(Str("No recent news found for '" \o topic \o "'."))
      [] world = "malformed_article" ->
            Val(Str("Unexpected error fetching news: 'publishedAt'."))
      [] world = "ok" -> Val(Str("1. [2024-01-01] title"))

\* search_news: the results, or "Search failed: ..." from `except Exception`.
search_news(keywords, world) ==
    CASE world = "raises" -> Val(Str("Search failed: ...."))
      [] world = "no_results" -> Val(Str("No news results found."))
      [] world = "ok" -> Val(Str("1. Title: ..."))

\* fetch_financial_data: the summary, or an "Error ..." string.
fetch_financial_data(ticker, world) ==
    IF ticker = "" THEN Val(Str("Error: No ticker symbol provided."))
    ELSE CASE world = "raises" ->
                 Val(Str("Error fetching financial data for " \o ticker \o ": ...."))
           [] world = "no_info_no_history" ->
                 Val(Str("Error: No data found for ticker '" \o ticker \o "'."))
           [] world = "no_info_history" ->
                 Val(Str("Limited info for '" \o ticker \o "'."))
           [] world = "ok" -> Val(Str("Financial Summary for " \o ticker))

\* search_video_transcripts / search_audio_transcripts as tools: a @pxt.query has
\* no try block, so what the embedding or the store raises leaves the call.
transcript_tool(query_text, world) ==
    CASE world = "raises" -> Exc("Error", <<"similarity", "failed">>)
      [] world = "no_results" -> Val(List(<<>>))
      [] world = "ok" -> Val(List(<<[text |-> "sentence", sim |-> 9]>>))

ToolArgs == {"", "ACME"}

\* One call of a tool with one argument.
InvokeTool(fn, arg, world) ==
    CASE fn = "get_latest_news" -> get_latest_news(arg, world)
      [] fn = "search_news" -> search_news(arg, world)
      [] fn = "fetch_financial_data" -> fetch_financial_data(arg, world)
      [] OTHER -> transcript_tool(arg, world)

\* The call is a tool call made by invoke_tools.
IsToolCall == cFn \in tools /\ "world" \in DOMAIN cArgs

CallTool ==
    /\ IsToolCall
    /\ cOut = NoneVal
    /\ cOut' = InvokeTool(cFn, cArgs.arg, cArgs.world)
    /\ UNCHANGED <<cFn, cArgs>>
    /\ UNCHANGED <<retryVars, pipeVars, sessVars, writeVars>>

\* The outside world makes the call fail: no key, a timeout, an error status, a
\* malformed reply, an exception of the library or of the store.
ToolCallFails(world) ==
    world \in { "no_api_key", "timeout", "request_exception", "status_500",
                "malformed_article", "raises", "no_info_no_history" }

\* C11: when a call of any tool of the registry fails, it gives a readable error
\* string as its output and does not raise.
C11_ToolsNeverRaise ==
    (IsToolCall /\ cOut # NoneVal /\ ToolCallFails(cArgs.world)) =>
        /\ IsVal(cOut)
        /\ cOut.v.kind = "str"

\* Arguments of text fusion: each context is None, empty, a list of one item
\* or a value of another type (a text, a number); a document item may have an
\* empty text or be a bare text, a memory item a null or numeric content, a
\* chat item a timestamp that is a text.
FusionArgs ==
    [ question : {"what is the price?"},
      tool_outputs : {NoneVal, [kind |-> "dict", tool |-> Str("search_news")]},
      doc_context :
          { NoneVal, List(<<>>),
            List(<<[text |-> Str("chunk"), source_doc |-> Str("docs/report.pdf"),
                    sim |-> 9]>>),
            List(<<[text |-> Str(""), source_doc |-> Str("docs/report.pdf"), sim |-> 9]>>),
            List(<<Str("loose text")>>),
            Str("abc"), PyInt(5) },
      memory_context :
          { NoneVal, List(<<>>),
            List(<<[content |-> Str("note"), type |-> Str("text"), sim |-> 9]>>),
            List(<<[content |-> NoneVal, type |-> Str("text"), sim |-> 9]>>),
            List(<<[content |-> PyInt(5)]>>),
            Str("abc") },
      chat_memory_context :
          { NoneVal, List(<<>>),
            List(<<[content |-> Str("earlier question"), role |-> Str("user"),
                    sim |-> 9]>>),
            List(<<[content |-> NoneVal, timestamp |-> Str("yesterday")]>>),
            Str("abc") } ]

CallFusion ==
    /\ cFn = "assemble_multimodal_context"
    /\ cOut = NoneVal
    /\ cOut' = assemble_multimodal_context(cArgs.question, cArgs.tool_outputs,
                   cArgs.doc_context, cArgs.memory_context, cArgs.chat_memory_context)
    /\ UNCHANGED <<cFn, cArgs>>
    /\ UNCHANGED <<retryVars, pipeVars, sessVars, writeVars>>

\* C14: text fusion called with tool_outputs, doc_context, memory_context and
\* chat_memory_context all None does not raise, and its four sections (tool
\* results, document, memory bank, chat history search) all read "N/A".
C14_FusionTotal ==
    (cFn = "assemble_multimodal_context" /\ cOut # NoneVal
       /\ cArgs.tool_outputs = NoneVal /\ cArgs.doc_context = NoneVal
       /\ cArgs.memory_context = NoneVal /\ cArgs.chat_memory_context = NoneVal) =>
        /\ IsVal(cOut)
        /\ cOut.v.tool_results = Str("N/A")
        /\ cOut.v.document_context = Str("N/A")
        /\ cOut.v.memory_bank_context = Str("N/A")
        /\ cOut.v.chat_history_search_context = Str("N/A")

\* Fusion has been called with the four inputs None and has returned its text.
C14_Witness ==
    /\ cFn = "assemble_multimodal_context"
    /\ cArgs.tool_outputs = NoneVal /\ cArgs.doc_context = NoneVal
    /\ cArgs.memory_context = NoneVal /\ cArgs.chat_memory_context = NoneVal
    /\ cOut # NoneVal
    /\ IsVal(cOut)
    /\ cOut.v.question = "what is the price?"

\* Arguments of message assembly: the history is None, empty, a list of turns
\* (some without role, or with an empty content) or of a bare text, or a value
\* of another type; the image and frame contexts are None, empty, a text, or a
\* list of one item, with or without the key the function reads, whose payload
\* is a text, bytes (well-formed UTF-8 or not) or a number.
HistoryTurns ==
    { [role |-> Str("user"), content |-> Str("hello")], [content |-> Str("hello")],
      [role |-> Str("assistant"), content |-> Str("")] }

MessageArgs ==
    [ history_context :
          {NoneVal, List(<<>>), List(<<Str("hello")>>), Str("abc"), PyInt(5)}
          \cup {List(<<t>>) : t \in HistoryTurns}
          \cup {List(<<t, u>>) : t \in HistoryTurns, u \in HistoryTurns},
      multimodal_context_text : {Str("fused text")},
      image_context :
          { NoneVal, List(<<>>), Str("abc"),
            List(<<[encoded_image |-> Str("img-b64"), sim |-> 3]>>),
            List(<<[encoded_image |-> Bytes(<<105, 109, 103>>), sim |-> 3]>>),
            List(<<[encoded_image |-> Bytes(<<255>>), sim |-> 3]>>),
            List(<<[encoded_image |-> PyInt(5), sim |-> 3]>>),
            List(<<[sim |-> 3]>>) },
      video_frame_context :
          { NoneVal, List(<<>>),
            List(<<[encoded_frame |-> Str("frame-b64"), sim |-> 3]>>),
            List(<<[encoded_video_frame |-> Str("frame-b64"), sim |-> 3]>>),
            List(<<[encoded_video_frame |-> Bytes(<<195, 40>>), sim |-> 3]>>) } ]

CallMessages ==
    /\ cFn = "assemble_final_messages"
    /\ cOut = NoneVal
    /\ cOut' = assemble_final_messages(cArgs.history_context,
                   cArgs.multimodal_context_text, cArgs.image_context,
                   cArgs.video_frame_context)
    /\ UNCHANGED <<cFn, cArgs>>
    /\ UNCHANGED <<retryVars, pipeVars, sessVars, writeVars>>

\* C15: whatever the history list (entries without role or content included)
\* and the image and frame lists (empty or None included), message assembly
\* returns a non-empty list whose last entry has role "user" and a list as
\* content, the last block of which has type "text".
C15_LastTurnEndsInText ==
    (cFn = "assemble_final_messages" /\ cOut # NoneVal
       /\ \A x \in {cArgs.history_context, cArgs.image_context,
                    cArgs.video_frame_context} :
              x = NoneVal \/ (x.kind = "list" /\ \A k \in DOMAIN x.items : IsDict(x.items[k]))) =>
        /\ IsVal(cOut)
        /\ cOut.v.kind = "list"
        /\ cOut.v.items # <<>>
        /\ LET last == cOut.v.items[Len(cOut.v.items)]
           IN  /\ last.role = Str("user")
               /\ last.content.kind = "list"
               /\ last.content.items # <<>>
               /\ last.content.items[Len(last.content.items)].type = Str("text")

\* C16: in the pipeline the assembled messages are one {role, content} entry per
\* turn of the recent history, oldest first, then exactly one user turn holding
\* one image block per retrieved image (in retrieval order), one video-frame
\* block per retrieved video frame, and one trailing text block with the fused
\* text.
C16_MessagesMirrorRetrieval ==
    (qPc # "idle" /\ row # NoneVal /\ row.cells["final_prompt_messages"].st = "value") =>
        LET msgs == row.cells["final_prompt_messages"].v.items
            hist == Reverse(row.cells["history_context"].v.items)
            imgs == row.cells["image_context"].v.items
            frames == row.cells["video_frame_context"].v.items
            blocks == msgs[Len(msgs)].content.items
        IN  /\ Len(msgs) = Len(hist) + 1
            /\ \A k \in 1..Len(hist) :
                   /\ msgs[k].role = hist[k].role
                   /\ msgs[k].content = hist[k].content
            /\ msgs[Len(msgs)].role = Str("user")
            /\ Len(blocks) = Len(imgs) + Len(frames) + 1
            /\ \A k \in 1..Len(imgs) : blocks[k].type = Str("image")
            /\ \A k \in 1..Len(frames) : blocks[Len(imgs) + k].type = Str("video_frame")
            /\ blocks[Len(blocks)] =
                   [type |-> Str("text"), text |-> row.cells["multimodal_context_summary"].v]

(***************************************************************************)
(* The similarity searches of backend/setup_pixeltable.py, over a          *)
(* collection of stored items.  A similarity is given in hundredths; each  *)
(* item carries its owner (user_id), its similarity to the query text and  *)
(* the length of its text.                                                 *)
(***************************************************************************)
Searches ==
    { "search_documents", "search_images", "search_video_frames",
      "search_video_transcripts", "search_audio_transcripts",
      "search_memory", "search_chat_history" }

\* The where clause and the limit of each search: `sim > threshold`, `.limit(n)`,
\* whether the owner compared with user_id is the caller's (the user_id
\* parameter) or config.DEFAULT_USER_ID, and whether `len(text) > 30` is asked.
Retrieval(fn) ==
    CASE fn = "search_documents" ->
            [threshold |-> 50, limit |-> 20, by_caller |-> TRUE, text_len |-> TRUE]
      [] fn = "search_images" ->
            [threshold |-> 25, limit |-> 5, by_caller |-> TRUE, text_len |-> FALSE]
      [] fn = "search_video_frames" ->
            [threshold |-> 25, limit |-> 5, by_caller |-> TRUE, text_len |-> FALSE]
      [] fn = "search_video_transcripts" ->
            [threshold |-> 70, limit |-> 20, by_caller |-> FALSE, text_len |-> FALSE]
      [] fn = "search_audio_transcripts" ->
            [threshold |-> 60, limit |-> 30, by_caller |-> FALSE, text_len |-> FALSE]
      [] fn = "search_memory" ->
            [threshold |-> 80, limit |-> 10, by_caller |-> TRUE, text_len |-> FALSE]
      [] fn = "search_chat_history" ->
            [threshold |-> 80, limit |-> 10, by_caller |-> TRUE, text_len |-> FALSE]

\* A plausible slip: `sim >= threshold`.
AtLeastThreshold(sim, threshold) == sim >= threshold

\* `sim > threshold`
OverThreshold(sim, threshold) == sim > threshold

\* One search: where, order_by, limit.  (The select keeps the item's content and
\* its sim; the owner is kept here to tell whose item was returned.)
Search(fn, user_id, collection) ==
    LET r == Retrieval(fn)
        scope == IF r.by_caller THEN user_id ELSE DEFAULT_USER_ID
        Keep(item) ==
            /\ item.owner = scope
            /\ OverThreshold(item.sim, r.threshold)
            /\ r.text_len => item.len > 30
    IN  Limit(OrderBySimDesc(SelectSeq(collection, Keep)), r.limit)

Owners == {DEFAULT_USER_ID, "user_b"}

\* How many of the other owner's items a collection holds.
MaxOthers == 2

\* A stored collection, in storage order: `others` items of the other owner with
\* a high similarity; for `owner`, one item exactly at the threshold, one below
\* it, one short text with a high similarity, and `over` items above the
\* threshold, with ties.
Collection(fn, owner, over, others) ==
    LET t == Retrieval(fn).threshold
        other == CHOOSE o \in Owners : o # owner
    IN  [j \in 1..others |-> [id |-> j, owner |-> other, sim |-> 95, len |-> 40]]
        \o << [id |-> others + 1, owner |-> owner, sim |-> t, len |-> 40],
              [id |-> others + 2, owner |-> owner, sim |-> t - 10, len |-> 40],
              [id |-> others + 3, owner |-> owner, sim |-> 99, len |-> 30] >>
        \o [j \in 1..over |->
               [id |-> others + 3 + j, owner |-> owner, sim |-> t + 1 + (j % 3),
                len |-> 40]]

\* The arguments of one search, with the collection it runs over: none, two, or
\* one more than the limit of the owner's items are above the threshold.
SearchArgs(fn) ==
    { [query_text |-> "what is the price?", user_id |-> u,
       collection |-> Collection(fn, o, k, m)] :
          u \in Owners, o \in Owners,
          k \in {0, 2, Retrieval(fn).limit + 1}, m \in {0, MaxOthers} }

\* The call is a search over a collection.
IsSearchCall == cFn \in Searches /\ "collection" \in DOMAIN cArgs

CallSearch ==
    /\ IsSearchCall
    /\ cOut = NoneVal
    /\ cOut' = Val(List(Search(cFn, cArgs.user_id, cArgs.collection)))
    /\ UNCHANGED <<cFn, cArgs>>
    /\ UNCHANGED <<retryVars, pipeVars, sessVars, writeVars>>

\* The items of a collection that belong to one owner.
OwnedBy(collection, owner) ==
    LET Own(item) == item.owner = owner IN SelectSeq(collection, Own)

\* C17: every search, the transcript searches offered as tools included, gives
\* the requesting owner only items of that owner, and gives the same result when
\* the other owners' items are taken out of the collection.
C17_ScopedToOwner ==
    (IsSearchCall /\ cOut # NoneVal) =>
        /\ \A k \in 1..Len(cOut.v.items) : cOut.v.items[k].owner = cArgs.user_id
        /\ cOut.v.items = Search(cFn, cArgs.user_id,
                                 OwnedBy(cArgs.collection, cArgs.user_id))

\* C18: every item a search returns has a similarity strictly above the
\* threshold of its modality, the items are in non-increasing order of
\* similarity, and there are at most `limit` of them.
C18_ThresholdOrderLimit ==
    (IsSearchCall /\ cOut # NoneVal) =>
        LET items == cOut.v.items
        IN  /\ \A k \in 1..Len(items) : items[k].sim > Retrieval(cFn).threshold
            /\ \A k \in 1..(Len(items) - 1) : items[k].sim >= items[k + 1].sim
            /\ Len(items) <= Retrieval(cFn).limit

\* A search has returned exactly `limit` items, best first, out of a collection
\* that holds more items above the threshold and one exactly at it.
C18_Witness ==
    /\ IsSearchCall
    /\ cOut # NoneVal
    /\ Len(cOut.v.items) = Retrieval(cFn).limit
    /\ Len(OwnedBy(cArgs.collection, cArgs.user_id)) > Retrieval(cFn).limit + 1
    /\ cOut.v.items[1].sim > cOut.v.items[Len(cOut.v.items)].sim

(***************************************************************************)
(* The pipeline inspector (backend/routers/database.py): the graph of      *)
(* tables, views and computed-column lineage rebuilt from table metadata.  *)
(***************************************************************************)
\* [a-z_][a-z0-9_]*
IsIdentifier(word) ==
    /\ At(word, 1) \in LowerChars \cup {"_"}
    /\ \A k \in 2..Len(word) : At(word, k) \in LowerChars \cup DigitChars \cup {"_"}

\* The matches of \b([a-z_][a-z0-9_]*)\b, in order: the runs of word
\* characters that are identifiers; `call` tells whether the run also matches
\* \b([a-z_][a-z0-9_]*)\s*\(.
Matches(text) ==
    LET Starts(i) == /\ At(text, i) \in WordChars
                     /\ i = 1 \/ At(text, i - 1) \notin WordChars
        starts == SelectSeq([i \in 1..Len(text) |-> i], Starts)
        runs == [n \in 1..Len(starts) |->
                   LET e == WordEnd(text, starts[n])
                       j == SkipSpace(text, e + 1)
                   IN  [text |-> SubSeq(text, starts[n], e),
                        call |-> j <= Len(text) /\ At(text, j) = "("]]
    IN  SelectSeq(runs, LAMBDA r : IsIdentifier(r.text))

\* str(cw)[:200]
Head200(text) == SubSeq(text, 1, IF Len(text) < 200 THEN Len(text) ELSE 200)

_BUILTIN_FUNCS ==
    { "transcriptions", "speech", "messages", "generate_content",
      "generate_images", "generate_videos", "extract_audio", "resize",
      "b64_encode", "clip", "map", "lambda" }

_CUSTOM_UDFS ==
    { "get_latest_news", "search_news", "fetch_financial_data",
      "extract_document_text", "assemble_multimodal_context",
      "assemble_final_messages", "assemble_follow_up_prompt" }

\* A table path such as "agents/chunks" is the tuple of its segments.
_QUERY_TABLE_MAP ==
    [ search_documents |-> <<"agents", "chunks">>,
      search_images |-> <<"agents", "images">>,
      search_video_frames |-> <<"agents", "video_frames">>,
      search_video_transcripts |-> <<"agents", "video_transcript_sentences">>,
      search_audio_transcripts |-> <<"agents", "audio_transcript_sentences">>,
      search_memory |-> <<"agents", "memory_bank">>,
      search_chat_history |-> <<"agents", "chat_history">>,
      get_recent_chat_history |-> <<"agents", "chat_history">>,
      get_all_memory |-> <<"agents", "memory_bank">> ]

_classify_func(name) ==
    IF name \in DOMAIN _QUERY_TABLE_MAP THEN "query"
    ELSE IF name \in _CUSTOM_UDFS THEN "custom_udf"
    ELSE IF name \in _BUILTIN_FUNCS THEN "builtin"
    ELSE "unknown"

\* The first name followed by "(" that is not one of the skipped words.
_extract_func_name(computed_with) ==
    IF ~Truthy(computed_with) THEN NoneVal
    ELSE LET skip == {"model", "config", "type", "object", "items", "str", "get", "text"}
             calls == SelectSeq(Matches(computed_with.s), LAMBDA t : t.call /\ t.text \notin skip)
         IN  IF calls = <<>> THEN NoneVal ELSE Str(calls[1].text)

\* The identifiers of a text.
Identifiers(text) == LET ms == Matches(text) IN {ms[k].text : k \in 1..Len(ms)}

\* The column names among the identifiers of the expression; sorted(set(...))
\* is determined by this set.
_parse_deps(computed_with, all_cols) ==
    IF ~Truthy(computed_with) THEN {}
    ELSE Identifiers(computed_with.s) \cap all_cols

\* A plausible slip: inherited columns are looked at too.
_detect_iterator_all_columns(columns) ==
    LET own_cols == {columns[k].name : k \in 1..Len(columns)}
    IN  IF {"frame_idx", "pos_frame", "frame"} \cap own_cols # {} THEN Str("FrameIterator")
        ELSE IF {"audio_chunk"} \cap own_cols # {} /\ {"start_time_sec", "end_time_sec"} \cap own_cols # {}
          THEN Str("AudioSplitter")
        ELSE IF {"heading", "page", "title"} \cap own_cols # {} /\ "pos" \in own_cols
          THEN Str("DocumentSplitter")
        ELSE IF "text" \in own_cols /\ "pos" \in own_cols THEN Str("StringSplitter")
        ELSE NoneVal

\* A plausible slip: the frame test is made last, after the splitters.
_detect_iterator_frames_last(columns) ==
    LET own_cols == {columns[k].name : k \in {j \in 1..Len(columns) : columns[j].defined_in_self}}
    IN  IF {"audio_chunk"} \cap own_cols # {} /\ {"start_time_sec", "end_time_sec"} \cap own_cols # {}
          THEN Str("AudioSplitter")
        ELSE IF {"heading", "page", "title"} \cap own_cols # {} /\ "pos" \in own_cols
          THEN Str("DocumentSplitter")
        ELSE IF "text" \in own_cols /\ "pos" \in own_cols THEN Str("StringSplitter")
        ELSE IF {"frame_idx", "pos_frame", "frame"} \cap own_cols # {} THEN Str("FrameIterator")
        ELSE NoneVal

_detect_iterator(columns) ==
    LET own_cols == {columns[k].name : k \in {j \in 1..Len(columns) : columns[j].defined_in_self}}
    IN  IF {"frame_idx", "pos_frame", "frame"} \cap own_cols # {} THEN Str("FrameIterator")
        ELSE IF {"audio_chunk"} \cap own_cols # {} /\ {"start_time_sec", "end_time_sec"} \cap own_cols # {}
          THEN Str("AudioSplitter")
        ELSE IF {"heading", "page", "title"} \cap own_cols # {} /\ "pos" \in own_cols
          THEN Str("DocumentSplitter")
        ELSE IF "text" \in own_cols /\ "pos" \in own_cols THEN Str("StringSplitter")
        ELSE NoneVal

\* What the store reports for one column: tbl.get_metadata()["columns"][name],
\* and the outcome of counting, in the first 500 rows, the cells in error.
Column(name, type_, computed_with, defined_in, err_rows) ==
    [name |-> name, type_ |-> type_, computed_with |-> computed_with, defined_in |-> defined_in, err_rows |-> err_rows]

\* _count_col_errors never raises: a failing count reads as 0.
_count_col_errors(col) == IF col.err_rows.kind = "exc" THEN 0 ELSE col.err_rows.v

\* One entry of a node's column list.
ColumnEntry(col, short_name, all_col_names) ==
    LET cw == col.computed_with
        is_computed == cw # NoneVal
        Entry(cw_str, func_name, deps) ==
            LET func_type == IF Truthy(func_name) THEN Str(_classify_func(func_name.s))
                             ELSE NoneVal
                entry == [ name |-> col.name,
                           type |-> col.type_,
                           is_computed |-> is_computed,
                           computed_with |-> cw_str,
                           defined_in |-> col.defined_in,
                           defined_in_self |-> col.defined_in = short_name,
                           func_name |-> func_name,
                           func_type |-> func_type,
                           error_count |-> IF is_computed THEN _count_col_errors(col) ELSE 0 ]
            IN  IF is_computed /\ Truthy(cw_str)
                  THEN entry @@ [depends_on |-> deps]
                  ELSE entry
        Described(cw_str) ==
            Entry(cw_str,
                  IF is_computed THEN _extract_func_name(cw_str) ELSE NoneVal,
                  _parse_deps(cw_str, all_col_names))
    IN  Described(IF Truthy(cw) THEN Str(Head200(cw.s)) ELSE NoneVal)

RECURSIVE SumErrors(_)
SumErrors(columns) ==
    IF columns = <<>> THEN 0 ELSE columns[1].error_count + SumErrors(Tail(columns))

\* A plausible slip: the seen-set is keyed by the query name, so that every
\* query column gives an edge.
QueryEdgesPerQuery(path, columns) ==
    LET IsQuery(k) == Truthy(columns[k].func_name) /\ columns[k].func_name.s \in DOMAIN _QUERY_TABLE_MAP
        First(k) == IsQuery(k) /\ \A j \in 1..(k - 1) : columns[j].func_name # columns[k].func_name
        ks == SelectSeq([k \in 1..Len(columns) |-> k], First)
    IN  [n \in 1..Len(ks) |->
            [source |-> _QUERY_TABLE_MAP[columns[ks[n]].func_name.s], target |-> path,
             type |-> "query", label |-> columns[ks[n]].func_name.s]]

\* The first column per target table whose function is a retrieval query gives
\* one query edge from the target table to this table.
QueryEdges(path, columns) ==
    LET IsQuery(k) == Truthy(columns[k].func_name) /\ columns[k].func_name.s \in DOMAIN _QUERY_TABLE_MAP
        Target(k) == _QUERY_TABLE_MAP[columns[k].func_name.s]
        First(k) == IsQuery(k) /\ \A j \in 1..(k - 1) : IsQuery(j) => Target(j) # Target(k)
        ks == SelectSeq([k \in 1..Len(columns) |-> k], First)
    IN  [n \in 1..Len(ks) |->
            [source |-> Target(ks[n]), target |-> path, type |-> "query", label |-> columns[ks[n]].func_name.s]]

\* The body of the per-table try block: the node of the table and its edges.
\* Index and version metadata are copied onto the node as reported and are
\* left out here.
InspectTable(path, md) ==
    LET short_name == path[Len(path)]
        all_col_names == {md.columns[k].name : k \in 1..Len(md.columns)}
        Node(columns, computed_count, iterator_type) ==
            [ path |-> path,
              name |-> short_name,
              is_view |-> md.is_view,
              base |-> md.base,
              row_count |-> md.row_count,
              total_errors |-> SumErrors(columns),
              columns |-> columns,
              computed_count |-> computed_count,
              insertable_count |-> Len(columns) - computed_count,
              iterator_type |-> iterator_type ]
        ViewEdge(iterator_type) ==
            IF md.is_view /\ Truthy(md.base)
              THEN << [ source |-> md.base.s, target |-> path, type |-> "view",
                        label |-> IF Truthy(iterator_type) THEN iterator_type.s ELSE "view" ] >>
              ELSE <<>>
        Graph(columns, computed_count, iterator_type) ==
            [nodes |-> << Node(columns, computed_count, iterator_type) >>,
             edges |-> ViewEdge(iterator_type) \o QueryEdges(path, columns)]
        Inspected(columns) ==
            Graph(columns,
                  Cardinality({k \in 1..Len(columns) : columns[k].is_computed}),
                  IF md.is_view THEN _detect_iterator(columns) ELSE NoneVal)
    IN  Inspected([k \in 1..Len(md.columns) |->
                      ColumnEntry(md.columns[k], short_name, all_col_names)])

\* The except branch of the per-table try block: a degraded node.  Its name
\* is the whole path, which holds no "."; its error is str(e).
DegradedNode(path, md) ==
    [ path |-> path, name |-> path, is_view |-> FALSE, base |-> NoneVal,
      row_count |-> 0, total_errors |-> 0, columns |-> <<>>,
      computed_count |-> 0, insertable_count |-> 0, error |-> ExcStr(md.raises) ]

\* A table whose inspection raises.  The calls that can raise (get_table,
\* get_metadata, count, the reading of the metadata) all come before the
\* node is appended, so wherever the exception comes from, nothing of the
\* table is in nodes or edges when the except branch runs.
InspectFailed(path, md) ==
    [nodes |-> <<DegradedNode(path, md)>>, edges |-> <<>>]

\* The table paths of the namespace, as sorted() orders them.
TablePaths == << <<"agents", "tools">>, <<"agents", "video_frames">>, <<"agents", "videos">> >>

sorted(paths) == SelectSeq(TablePaths, LAMBDA p : p \in paths)

RECURSIVE InspectAll(_, _)
InspectAll(table_paths, catalog) ==
    IF table_paths = <<>> THEN [nodes |-> <<>>, edges |-> <<>>]
    ELSE LET path == table_paths[1]
             md == catalog[path]
             Joined(one, rest) ==
                 [nodes |-> one.nodes \o rest.nodes, edges |-> one.edges \o rest.edges]
         IN  Joined(IF md.raises # NoneVal THEN InspectFailed(path, md)
                    ELSE InspectTable(path, md),
                    InspectAll(Tail(table_paths), catalog))

\* GET /pipeline: the graph, or HTTP 500 when the tables cannot be listed.
get_pipeline(catalog, list_raises) ==
    IF list_raises # NoneVal THEN HTTPExc(500, ExcStr(list_raises))
    ELSE Val(InspectAll(sorted(DOMAIN catalog), catalog))

\* The metadata the store can report for the tables of the namespace.
Plain(name, type_, defined_in) == Column(name, type_, NoneVal, defined_in, Val(0))

Table(columns, rows) ==
    [raises |-> NoneVal, raise_at |-> "", is_view |-> FALSE, base |-> NoneVal, columns |-> columns, row_count |-> rows]

View(base, columns, rows) ==
    [raises |-> NoneVal, raise_at |-> "", is_view |-> TRUE, base |-> Str(base), columns |-> columns, row_count |-> rows]

RECURSIVE Pad(_)
\* n spaces.
Pad(n) ==
    IF n = 0 THEN ""
    ELSE IF n % 2 = 0 THEN LET half == Pad(n \div 2) IN half \o half
    ELSE " " \o Pad(n - 1)

VideosMeta ==
    LET inserted == << Plain("video", "Video", "videos"), Plain("uuid", "String", "videos"),
                       Plain("timestamp", "Timestamp", "videos"),
                       Plain("user_id", "String", "videos") >>
        audio == Column("audio", "Audio", Str("extract_audio(video, format='mp3')"), "videos", Val(1))
    IN  { Table(inserted, 1), Table(inserted \o <<audio>>, 1) }

VideoFramesMeta ==
    LET videos == <<"agents", "videos">>
        inherited == << Plain("video", "Video", "videos"), Plain("uuid", "String", "videos"),
                        Plain("timestamp", "Timestamp", "videos"),
                        Plain("user_id", "String", "videos") >>
        Own(names) == [k \in 1..Len(names) |-> Plain(names[k], "Required", "video_frames")]
        thumbnail == Column("frame_thumbnail", "String",
                            Str("b64_encode(resize(frame, size=(192, 192)))"),
                            "video_frames", Exc("Error", <<"no", "such", "column">>))
        text == Column("text", "String", Str("ocr(frame)"), "video_frames", Val(0))
        \* Character 200 falls inside frame_idx, after "frame".
        padded == Column("frame_label", "String",
                         Str("str   (" \o Pad(188) \o "frame_idx, pos_msec)"),
                         "video_frames", Val(0))
        frames == Own(<<"pos", "frame_idx", "pos_msec", "pos_frame", "frame">>)
    IN  { View(videos, frames \o inherited \o <<thumbnail>>, 2),
          View(videos, frames \o inherited \o <<thumbnail, text>>, 2),
          View(videos, frames \o inherited \o <<padded>>, 2),
          View(videos, Own(<<"pos", "audio_chunk", "start_time_sec", "end_time_sec">>) \o inherited, 2),
          View(videos, Own(<<"pos", "text">>) \o inherited, 2),
          View(videos, Own(<<"pos", "text", "title", "heading", "page">>) \o inherited, 2),
          View(videos, Own(<<"pos", "text", "title">>) \o inherited, 2),
          View(videos, inherited \o <<Plain("frame", "Image", "videos")>>, 1),
          View(videos, inherited, 1) }

ToolsMeta ==
    LET inserted == << Plain("prompt", "String", "tools"), Plain("timestamp", "Timestamp", "tools"),
                       Plain("user_id", "String", "tools"),
                       Plain("initial_system_prompt", "String", "tools"),
                       Plain("final_system_prompt", "String", "tools"),
                       Plain("max_tokens", "Int", "tools"),
                       Plain("temperature", "Float", "tools") >>
        Query(name, fn) ==
            Column(name, "Json", Str(fn \o "(prompt, user_id)"), "tools", Val(0))
        \* The registered tools, in the order of pxt.tools(...).
        registry == "[get_latest_news, fetch_financial_data, search_news, "
                       \o "search_video_transcripts, search_audio_transcripts]"
        \* 350 characters: the kept head ends inside the tool list.
        initial_response ==
            Column("initial_response", "Json",
                   Str("messages(model='claude-sonnet-4-20250514', "
                       \o "messages=[{'role': 'user', 'content': prompt}], "
                       \o "tools=" \o registry \o ", "
                       \o "tool_choice={'tool_choice': {'required': True}}, "
                       \o "max_tokens=max_tokens, "
                       \o "model_kwargs={'system': initial_system_prompt, "
                       \o "'temperature': temperature})"),
                   "tools", Val(0))
        tool_output ==
            Column("tool_output", "Json",
                   Str("invoke_tools(" \o registry \o ", initial_response)"), "tools", Val(0))
        history ==
            Column("history_context", "Json", Str("get_recent_chat_history(user_id)"), "tools", Val(0))
        summary ==
            Column("multimodal_context_summary", "String",
                   Str("assemble_multimodal_context(prompt, tool_output, doc_context, "
                       \o "memory_context, chat_memory_context)"),
                   "tools", Val(1))
    \* The table as created, and with the computed columns of steps 1 to 5.
    IN  { Table(inserted, 0),
          Table(inserted \o << initial_response,
                               tool_output,
                               Query("doc_context", "search_documents"),
                               Query("image_context", "search_images"),
                               Query("video_frame_context", "search_video_frames"),
                               Query("memory_context", "search_memory"),
                               Query("chat_memory_context", "search_chat_history"),
                               history,
                               summary >>, 2) }

\* The ways the inspection of one table can fail: the call that raises and
\* what it raises.
Failures ==
    { [at |-> "get_table", exc |-> Exc("Error", <<"table", "was", "dropped">>)],
      [at |-> "get_metadata", exc |-> Exc("ResourceClosedError", <<"This", "Connection", "is", "closed">>)],
      [at |-> "count", exc |-> Exc("AssertionError", <<>>)] }

Failing(mds) == {[md EXCEPT !.raises = f.exc, !.raise_at = f.at] : md \in mds, f \in Failures}

\* At most MaxFailing tables of a catalog fail to inspect.
MaxFailing == 2

Catalogs ==
    { c \in { (<<"agents", "tools">> :> t) @@ (<<"agents", "video_frames">> :> f) @@ (<<"agents", "videos">> :> v) :
                t \in ToolsMeta \cup Failing(ToolsMeta),
                f \in VideoFramesMeta \cup Failing(VideoFramesMeta),
                v \in VideosMeta \cup Failing(VideosMeta) } :
        Cardinality({p \in DOMAIN c : c[p].raises # NoneVal}) <= MaxFailing }

PipelineArgs ==
    {[catalog |-> c, list_raises |-> r] : c \in Catalogs, r \in {NoneVal, Exc("Error", <<"connection", "refused">>)}}

PipelineOutcome(a) == get_pipeline(a.catalog, a.list_raises)

CallPipeline ==
    /\ cFn = "get_pipeline"
    /\ cOut = NoneVal
    /\ cOut' = PipelineOutcome(cArgs)
    /\ UNCHANGED <<cFn, cArgs>>
    /\ UNCHANGED <<retryVars, pipeVars, sessVars, writeVars>>

\* An inspection has finished and returned its graph.
Graphed == cFn = "get_pipeline" /\ cOut # NoneVal /\ cOut.kind = "val"

NodeOf(path) == CHOOSE n \in {cOut.v.nodes[k] : k \in 1..Len(cOut.v.nodes)} : n.path = path

\* The view was created with the frame iterator: the columns the iterator
\* adds are the view's own.
FrameView(path, md) ==
    /\ md.is_view
    /\ \A c \in {"pos", "frame_idx", "pos_msec", "pos_frame", "frame"} :
          \E k \in 1..Len(md.columns) :
             md.columns[k].name = c /\ md.columns[k].defined_in = path[Len(path)]

NoDerivedFields(md) == \A k \in 1..Len(md.columns) : md.columns[k].computed_with = NoneVal

\* C19: in the graph of a finished inspection, every successfully inspected
\* view with a base has exactly one view edge, from its base; for a view made
\* by frame extraction that edge is labelled "FrameIterator"; and a table
\* with no derived field reports no field-to-field dependency: none of its
\* column entries has a dependency list and none of its edges is anything
\* but a view or query edge.
C19_ViewEdgeAndNoFieldEdges ==
    Graphed =>
        \A path \in DOMAIN cArgs.catalog :
            LET md == cArgs.catalog[path]
                n == NodeOf(path)
                edges == cOut.v.edges
                view_edges == {k \in 1..Len(edges) : edges[k].type = "view" /\ edges[k].target = path}
            IN  md.raises = NoneVal =>
                  /\ (md.is_view /\ Truthy(md.base)) =>
                        /\ Cardinality(view_edges) = 1
                        /\ \A k \in view_edges : edges[k].source = md.base.s
                  /\ FrameView(path, md) =>
                        \A k \in view_edges : edges[k].label = "FrameIterator"
                  /\ NoDerivedFields(md) =>
                        /\ \A k \in 1..Len(n.columns) : "depends_on" \notin DOMAIN n.columns[k]
                        /\ \A k \in 1..Len(edges) :
                              edges[k].target = path => edges[k].type \in {"view", "query"}

\* A graph holds the frame view, whose own columns also include a derived
\* `text` next to `pos`, with its edge labelled "FrameIterator", and a table
\* without derived fields.
C19_Witness ==
    /\ Graphed
    /\ LET path == <<"agents", "video_frames">>
           md == cArgs.catalog[path]
       IN  /\ md.raises = NoneVal
           /\ FrameView(path, md)
           /\ \E k \in 1..Len(md.columns) : md.columns[k].name = "text"
           /\ \E k \in 1..Len(cOut.v.edges) :
                 /\ cOut.v.edges[k].target = path
                 /\ cOut.v.edges[k].source = <<"agents", "videos">>
                 /\ cOut.v.edges[k].label = "FrameIterator"
    /\ NoDerivedFields(cArgs.catalog[<<"agents", "tools">>])
    /\ Len(NodeOf(<<"agents", "tools">>).columns) = 7

\* C20: the edges list holds a field-to-field edge for every dependency the
\* extractor found: for every column entry with a dependency
\* list and every name in it, an edge other than a view or query edge runs
\* between the two fields.
C20_EdgesCarryDependencies ==
    Graphed =>
        \A i \in 1..Len(cOut.v.nodes) :
            LET columns == cOut.v.nodes[i].columns
            IN  \A k \in 1..Len(columns) :
                    "depends_on" \in DOMAIN columns[k] =>
                        \A d \in columns[k].depends_on :
                            \E e \in 1..Len(cOut.v.edges) :
                                /\ cOut.v.edges[e].type \notin {"view", "query"}
                                /\ cOut.v.edges[e].source = d
                                /\ cOut.v.edges[e].target = columns[k].name

\* The query columns of an inspected table, as its node reports them: the
\* positions of the column entries whose extracted function is a retrieval
\* query of the query-to-table map.
QueryColumns(n) ==
    {k \in 1..Len(n.columns) :
        Truthy(n.columns[k].func_name) /\ n.columns[k].func_name.s \in DOMAIN _QUERY_TABLE_MAP}

QueryEdgeSet(path) ==
    {k \in 1..Len(cOut.v.edges) : cOut.v.edges[k].type = "query" /\ cOut.v.edges[k].target = path}

\* C21 (as stated): for every column entry whose extracted function is a
\* retrieval query, the edges hold a query edge from the query's target table
\* to the referencing table labelled with that query's name, also when two
\* queries of one table have the same target table.
C21_EdgePerQuery ==
    Graphed =>
        \A i \in 1..Len(cOut.v.nodes) :
            LET n == cOut.v.nodes[i]
            IN  \A k \in QueryColumns(n) :
                    \E e \in QueryEdgeSet(n.path) :
                        /\ cOut.v.edges[e].source = _QUERY_TABLE_MAP[n.columns[k].func_name.s]
                        /\ cOut.v.edges[e].label = n.columns[k].func_name.s

\* C21 (amended): for every column entry whose extracted function is a
\* retrieval query, the edges hold exactly one query edge from the query's
\* target table to the referencing table; it is labelled with the name of the
\* first query, in column order, that has this target table.
C21_OneEdgePerTarget ==
    Graphed =>
        \A i \in 1..Len(cOut.v.nodes) :
            LET n == cOut.v.nodes[i]
            IN  \A k \in QueryColumns(n) :
                    LET target == _QUERY_TABLE_MAP[n.columns[k].func_name.s]
                        same == {j \in QueryColumns(n) : _QUERY_TABLE_MAP[n.columns[j].func_name.s] = target}
                        first == CHOOSE j \in same : \A j2 \in same : j <= j2
                        es == {e \in QueryEdgeSet(n.path) : cOut.v.edges[e].source = target}
                    IN  /\ Cardinality(es) = 1
                        /\ \A e \in es : cOut.v.edges[e].label = n.columns[first].func_name.s

\* The tools table uses search_chat_history and, after it,
\* get_recent_chat_history; the graph has the chat-history edge of the first,
\* one query edge for each of the five target tables of the six queries.
C21_Witness ==
    /\ Graphed
    /\ LET n == NodeOf(<<"agents", "tools">>)
       IN  /\ \E j, k \in QueryColumns(n) :
                 /\ j < k
                 /\ n.columns[j].func_name.s = "search_chat_history"
                 /\ n.columns[k].func_name.s = "get_recent_chat_history"
           /\ \E e \in QueryEdgeSet(n.path) :
                 /\ cOut.v.edges[e].source = <<"agents", "chat_history">>
                 /\ cOut.v.edges[e].label = "search_chat_history"
           /\ Cardinality(QueryColumns(n)) = 6
           /\ Cardinality(QueryEdgeSet(n.path)) = 5

\* The same catalog with the table at `path` inspecting normally.
Healed(catalog, path) == [catalog EXCEPT ![path] = [@ EXCEPT !.raises = NoneVal, !.raise_at = ""]]

\* C22: when the tables can be listed and the inspection of a table raises,
\* at whichever call, the response is still a graph; it holds exactly one
\* node for that table, with the error field populated (the exception's text,
\* which is not empty) and no columns; no edge comes from that table's inspection; and the nodes and
\* edges that come from the other tables are those of the graph in which the
\* failing table inspects normally.
C22_DegradedNodeOnly ==
    (cFn = "get_pipeline" /\ cOut # NoneVal /\ cArgs.list_raises = NoneVal) =>
        /\ cOut.kind = "val"
        /\ \A path \in DOMAIN cArgs.catalog :
              LET md == cArgs.catalog[path]
                  normal == get_pipeline(Healed(cArgs.catalog, path), NoneVal).v
                  mine == {k \in 1..Len(cOut.v.nodes) : cOut.v.nodes[k].path = path}
                  OtherNode(n) == n.path # path
                  OtherEdge(e) == e.target # path
              IN  md.raises # NoneVal =>
                    /\ Cardinality(mine) = 1
                    /\ \A k \in mine :
                          /\ "error" \in DOMAIN cOut.v.nodes[k]
                          /\ cOut.v.nodes[k].error = ExcStr(md.raises)
                          /\ cOut.v.nodes[k].error # <<>>
                          /\ cOut.v.nodes[k].columns = <<>>
                    /\ \A e \in 1..Len(cOut.v.edges) : cOut.v.edges[e].target # path
                    /\ SelectSeq(cOut.v.nodes, OtherNode) = SelectSeq(normal.nodes, OtherNode)
                    /\ SelectSeq(cOut.v.edges, OtherEdge) = SelectSeq(normal.edges, OtherEdge)

\* The names of the columns the store reports as defined in the table itself.
OwnColumns(path, md) ==
    {md.columns[k].name : k \in {j \in 1..Len(md.columns) : md.columns[j].defined_in = path[Len(path)]}}

\* The iterator the statement of C24 gives for a set of own columns, each
\* listed set read as "all of these columns are present".
IteratorAllOf(own) ==
    IF {"frame_idx", "pos_frame", "frame"} \subseteq own THEN Str("FrameIterator")
    ELSE IF {"audio_chunk", "start_time_sec", "end_time_sec"} \subseteq own THEN Str("AudioSplitter")
    ELSE IF {"heading", "page", "title", "pos"} \subseteq own THEN Str("DocumentSplitter")
    ELSE IF {"text", "pos"} \subseteq own THEN Str("StringSplitter")
    ELSE NoneVal

\* C24 (as stated): the node of a successfully inspected view reports the
\* frame iterator when its own columns hold frame_idx, pos_frame and frame,
\* the audio splitter when they hold audio_chunk, start_time_sec and
\* end_time_sec, the document splitter when they hold heading, page, title
\* and pos, the string splitter when they hold text and pos, and no iterator
\* otherwise.
C24_IteratorByColumnSets ==
    Graphed =>
        \A path \in DOMAIN cArgs.catalog :
            LET md == cArgs.catalog[path]
            IN  (md.raises = NoneVal /\ md.is_view) =>
                    NodeOf(path).iterator_type = IteratorAllOf(OwnColumns(path, md))

\* C24 (amended): the node of a successfully inspected view reports, looking
\* at the view's own columns only: the frame iterator when any of frame_idx,
\* pos_frame, frame is among them; otherwise the audio splitter when
\* audio_chunk and at least one of start_time_sec, end_time_sec are;
\* otherwise the document splitter when pos and at least one of heading,
\* page, title are; otherwise the string splitter when text and pos are;
\* otherwise no iterator.
C24_IteratorByAnyColumn ==
    Graphed =>
        \A path \in DOMAIN cArgs.catalog :
            LET md == cArgs.catalog[path]
                own == OwnColumns(path, md)
                Has(c) == c \in own
                it == NodeOf(path).iterator_type
                frame == Has("frame_idx") \/ Has("pos_frame") \/ Has("frame")
                audio == Has("audio_chunk") /\ (Has("start_time_sec") \/ Has("end_time_sec"))
                document == Has("pos") /\ (Has("heading") \/ Has("page") \/ Has("title"))
                string == Has("text") /\ Has("pos")
            IN  (md.raises = NoneVal /\ md.is_view) =>
                  /\ frame => it = Str("FrameIterator")
                  /\ (~frame /\ audio) => it = Str("AudioSplitter")
                  /\ (~frame /\ ~audio /\ document) => it = Str("DocumentSplitter")
                  /\ (~frame /\ ~audio /\ ~document /\ string) => it = Str("StringSplitter")
                  /\ (~frame /\ ~audio /\ ~document /\ ~string) => it = NoneVal

\* A view inherits a column named frame from its base and has no iterator
\* column of its own: its node reports no iterator.
C24_Witness ==
    /\ Graphed
    /\ LET path == <<"agents", "video_frames">>
           md == cArgs.catalog[path]
       IN  /\ md.raises = NoneVal
           /\ \E k \in 1..Len(md.columns) : md.columns[k].name = "frame"
           /\ "frame" \notin OwnColumns(path, md)
           /\ NodeOf(path).iterator_type = NoneVal

\* C25: for every derived field of a successfully inspected table, the
\* column entry has a dependency list, and it is the set of the table's
\* column names among the tokens of the whole derivation expression,
\* whatever its length.
C25_DependsOnAllReferences ==
    Graphed =>
        \A path \in DOMAIN cArgs.catalog :
            LET md == cArgs.catalog[path]
                names == {md.columns[k].name : k \in 1..Len(md.columns)}
            IN  md.raises = NoneVal =>
                    \A k \in 1..Len(md.columns) :
                        LET cw == md.columns[k].computed_with
                            entry == NodeOf(path).columns[k]
                        IN  cw # NoneVal =>
                              /\ "depends_on" \in DOMAIN entry
                              /\ entry.depends_on = Identifiers(cw.s) \cap names

(***************************************************************************)
(* The chat-history step of query() (backend/routers/chat.py, and the same *)
(* lines of endpoint.py): pxt.get_table, the insert of the user row, the   *)
(* clock reading for the assistant row and the insert of that row are     *)
(* separate calls, and other requests insert their rows between them.  An  *)
(* exception of a store call ends the step (it is logged and dropped).     *)
(* `by` names the request that wrote a row (it is no column of the table). *)
(***************************************************************************)
MaxOtherTurns == 2

ChatRow(role, content, timestamp) ==
    [role |-> role, content |-> content, timestamp |-> timestamp,
     user_id |-> DEFAULT_USER_ID, by |-> "request"]

\* The rows found in agents.chat_history, written by other requests.
Found(history) ==
    [k \in DOMAIN history |->
        [role |-> history[k].role, content |-> history[k].content,
         timestamp |-> history[k].timestamp, user_id |-> history[k].user_id,
         by |-> "other"]]

\* What result_data.get("answer", ...) can hold: the key is always there, so
\* None or a text.
Answers == {NoneVal, Str(""), Str(Sentinel), Str("Error: other"), Str("the answer")}

\* The store call of the step that raises, if any.
RecordArgs ==
    { [history |-> h, query |-> q, answer |-> a, raises |-> r] :
        h \in {<<>>, PriorChat}, q \in Queries \ {""}, a \in Answers,
        r \in {"none", "get_table", "user", "assistant"} }

\* The step while it runs: where it is, the rows of agents.chat_history, the
\* clock reading taken for the assistant row, the rows other requests added.
Running(pc, rows, now, others) ==
    [kind |-> "step", pc |-> pc, rows |-> rows, now |-> now, others |-> others]

\* chat_history_table = pxt.get_table("agents.chat_history")
RecordGetTable ==
    /\ cFn = "record_chat_turns"
    /\ cOut = NoneVal
    /\ cOut' = IF cArgs.raises = "get_table" THEN Val(Found(cArgs.history))
               ELSE Running("insert_user", Found(cArgs.history), current_timestamp, 0)
    /\ UNCHANGED <<cFn, cArgs>>
    /\ UNCHANGED <<retryVars, pipeVars, sessVars, writeVars>>

\* The insert of the user row; then the answer is tested.
RecordUserRow ==
    /\ cFn = "record_chat_turns"
    /\ cOut.kind = "step"
    /\ cOut.pc = "insert_user"
    /\ LET rows == Append(cOut.rows, ChatRow("user", cArgs.query, current_timestamp))
       IN  cOut' = IF cArgs.raises = "user" THEN Val(cOut.rows)
                   ELSE IF ValidAnswer(cArgs.answer)
                   THEN [cOut EXCEPT !.pc = "assistant_row", !.rows = rows]
                   ELSE Val(rows)
    /\ UNCHANGED <<cFn, cArgs>>
    /\ UNCHANGED <<retryVars, pipeVars, sessVars, writeVars>>

\* The assistant row is built: timestamp=datetime.now(), a reading later than
\* the request's own.
RecordAssistantClock(advance) ==
    /\ cFn = "record_chat_turns"
    /\ cOut.kind = "step"
    /\ cOut.pc = "assistant_row"
    /\ cOut' = [cOut EXCEPT !.pc = "insert_assistant", !.now = current_timestamp + advance]
    /\ UNCHANGED <<cFn, cArgs>>
    /\ UNCHANGED <<retryVars, pipeVars, sessVars, writeVars>>

\* The insert of the assistant row.
RecordAssistantRow ==
    /\ cFn = "record_chat_turns"
    /\ cOut.kind = "step"
    /\ cOut.pc = "insert_assistant"
    /\ cOut' = IF cArgs.raises = "assistant" THEN Val(cOut.rows)
               ELSE Val(Append(cOut.rows, ChatRow("assistant", cArgs.answer.s, cOut.now)))
    /\ UNCHANGED <<cFn, cArgs>>
    /\ UNCHANGED <<retryVars, pipeVars, sessVars, writeVars>>

\* The rows another request of the owner inserts meanwhile.
OtherTurns ==
    { [role |-> "user", content |-> "what is the price?", timestamp |-> current_timestamp,
       user_id |-> DEFAULT_USER_ID, by |-> "other"],
      [role |-> "assistant", content |-> "the answer", timestamp |-> current_timestamp + 1,
       user_id |-> DEFAULT_USER_ID, by |-> "other"] }

\* Another request's insert into agents.chat_history falls between two calls
\* of the step.
OtherTurn(r) ==
    /\ cFn = "record_chat_turns"
    /\ cOut.kind = "step"
    /\ cOut.others < MaxOtherTurns
    /\ cOut' = [cOut EXCEPT !.rows = Append(@, r), !.others = @ + 1]
    /\ UNCHANGED <<cFn, cArgs>>
    /\ UNCHANGED <<retryVars, pipeVars, sessVars, writeVars>>

\* The rows of agents.chat_history, while the step runs and when it has ended.
ChatRows == IF cOut.kind = "step" THEN cOut.rows ELSE cOut.v

\* The rows the step's own request wrote, in the table's order.
IsOwn(r) == r.by = "request"
Added == SelectSeq(ChatRows, IsOwn)

\* The text is empty or starts with "Error:".
ErrorOrEmpty(text) == text \in {"", Sentinel, "Error: other"}

\* An assistant row of the request holds a valid answer and comes after the
\* user row of the same query.
AssistantRowsValid ==
    \A k \in DOMAIN ChatRows :
        (IsOwn(ChatRows[k]) /\ ChatRows[k].role = "assistant") =>
            /\ ~ErrorOrEmpty(ChatRows[k].content)
            /\ \E j \in 1..(k - 1) :
                  ChatRows[j] = ChatRow("user", cArgs.query, current_timestamp)

\* C27 as stated: every assistant row the query adds holds an answer that is
\* not empty and does not start with "Error:" and comes after the user row
\* of the same query; and a query whose answer is empty or starts with
\* "Error:" adds a user row but no assistant row.
C27_UserRowAlwaysAdded ==
    (cFn = "record_chat_turns" /\ cOut # NoneVal) =>
        /\ AssistantRowsValid
        /\ (IsVal(cOut) /\ (cArgs.answer = NoneVal \/ ErrorOrEmpty(cArgs.answer.s))) =>
              Added = <<ChatRow("user", cArgs.query, current_timestamp)>>

\* C27 (amended): at every moment of the chat-history step of a query, with the
\* rows of other requests falling between its calls, the rows found are kept
\* and the query has added at most a user row and then an assistant row; an
\* assistant row it adds holds an answer that is not empty and does not
\* start with "Error:", and comes after the user row of the same query; when
\* the answer is None, empty or starts with "Error:", the query adds the
\* user row (unless get_table or that insert raises, and then no row) and no
\* assistant row.
C27_OnlyValidAnswersStored ==
    (cFn = "record_chat_turns" /\ cOut # NoneVal) =>
        /\ SubSeq(ChatRows, 1, Len(cArgs.history)) = Found(cArgs.history)
        /\ Len(Added) <= 2
        /\ AssistantRowsValid
        /\ (IsVal(cOut) /\ (cArgs.answer = NoneVal \/ ErrorOrEmpty(cArgs.answer.s))) =>
              Added = IF cArgs.raises \in {"get_table", "user"} THEN <<>>
                      ELSE <<ChatRow("user", cArgs.query, current_timestamp)>>

\* A step with a valid answer has added both rows, after the rows it found,
\* and another request's user row fell between them.
C27_Witness ==
    /\ cFn = "record_chat_turns" /\ IsVal(cOut)
    /\ cArgs.answer = Str("the answer")
    /\ cArgs.history = PriorChat
    /\ Len(cOut.v) = Len(PriorChat) + 3
    /\ cOut.v[Len(PriorChat) + 1] = ChatRow("user", cArgs.query, current_timestamp)
    /\ cOut.v[Len(PriorChat) + 2].by = "other"
    /\ cOut.v[Len(PriorChat) + 3].role = "assistant"
    /\ IsOwn(cOut.v[Len(PriorChat) + 3])
    /\ cOut.v[Len(PriorChat) + 3].timestamp > current_timestamp

\* The calls a caller can make: a function with its arguments.
ToolCalls ==
    UNION { { [fn |-> f, args |-> [arg |-> a, world |-> w]] :
                a \in ToolArgs, w \in ToolWorlds(f) } : f \in tools }

Calls ==
    ToolCalls
    \cup {[fn |-> "assemble_multimodal_context", args |-> a] : a \in FusionArgs}
    \cup {[fn |-> "assemble_final_messages", args |-> a] : a \in MessageArgs}
    \cup UNION {{[fn |-> f, args |-> a] : a \in SearchArgs(f)} : f \in Searches}
    \cup {[fn |-> "get_pipeline", args |-> a] : a \in PipelineArgs}
    \cup {[fn |-> "record_chat_turns", args |-> a] : a \in RecordArgs}

CallsInit ==
    /\ \E c \in Calls : cFn = c.fn /\ cArgs = c.args
    /\ cOut = NoneVal
    /\ RetryIdle
    /\ PipeIdle
    /\ SessIdle
    /\ WriteIdle

CallsNext ==
    \/ CallTool
    \/ CallFusion
    \/ CallMessages
    \/ CallSearch
    \/ CallPipeline
    \/ RecordGetTable
    \/ RecordUserRow
    \/ \E advance \in {1, 2} : RecordAssistantClock(advance)
    \/ RecordAssistantRow
    \/ \E r \in OtherTurns : OtherTurn(r)

SpecCalls == CallsInit /\ [][CallsNext]_vars

(***************************************************************************)
(* Concurrent POST /api/query requests of one owner                        *)
(* (backend/routers/chat.py).  Each request reads the clock, inserts its   *)
(* row (the store computes the row's columns during the insert, the two    *)
(* that read the chat history each against the chat history as it is       *)
(* then), reads the row back by (timestamp, user_id), records its turns in *)
(* the chat history and answers, while history entries are deleted         *)
(* (backend/routers/history.py).  No column evaluation fails here.         *)
(***************************************************************************)
MaxClock == 3

\* Two requests in flight at a time.
Requests == {1, 2}

\* The two columns that read agents.chat_history.
ContextStages == {"chat_memory_context", "history_context"}

\* A request: where its handler is, its prompt and timestamp, the two context
\* cells of its row as far as the insert has computed them, what the read-back
\* gave, and the clock reading taken for the assistant's turn.
FreshRequest ==
    [pc |-> "start", prompt |-> "", ts |-> 0, now |-> 0,
     cells |-> [s \in ContextStages |-> Pending],
     rowid |-> 0, answer |-> NoneVal, status |-> 0]

SessionsInit ==
    /\ reqs = [i \in Requests |-> FreshRequest]
    /\ clock = 1
    /\ onError = "abort"
    /\ fails = {}
    /\ hasData = FALSE
    /\ body = NoneVal
    /\ histFail = "none"
    /\ qPc = "idle"
    /\ row = NoneVal
    /\ table = {}
    /\ chat = <<>>
    /\ result = NoneVal
    /\ resp = NoneVal
    /\ lastRead = NoneVal
    /\ RetryIdle
    /\ CallIdle
    /\ WriteIdle

\* The rows of agents.chat_history are kept oldest first: a new row goes after
\* the rows whose timestamp is not later than its own.
InsertByTimestamp(rows, r) ==
    LET NotLater(x) == x.timestamp <= r.timestamp
        Later(x) == x.timestamp > r.timestamp
    IN  SelectSeq(rows, NotLater) \o <<r>> \o SelectSeq(rows, Later)

\* The prompts of the requests (validated: not empty).
SessPrompts == Queries \ {""}

\* query(), from the validated body to `current_timestamp = datetime.now()`: the
\* clock has moved on since its last reading, or has not.  Requests are numbered
\* in the order in which they read the clock.
SessSubmit(i, q, advance) ==
    /\ reqs[i].pc = "start"
    /\ IF i = 1 THEN TRUE ELSE reqs[i - 1].pc # "start"
    /\ clock + advance <= MaxClock
    /\ clock' = clock + advance
    /\ reqs' = [reqs EXCEPT ![i] = [@ EXCEPT !.pc = "insert", !.prompt = q, !.ts = clock']]
    /\ UNCHANGED <<retryVars, pipeVars, callVars, writeVars>>

\* The row request i hands to insert.
SessRow(i) ==
    [prompt |-> reqs[i].prompt,
     timestamp |-> reqs[i].ts,
     user_id |-> DEFAULT_USER_ID,
     initial_system_prompt |-> INITIAL_SYSTEM_PROMPT,
     final_system_prompt |-> FINAL_SYSTEM_PROMPT,
     max_tokens |-> DEFAULT_MAX_TOKENS,
     temperature |-> DEFAULT_TEMPERATURE,
     rowid |-> i,
     cells |-> [s \in Stages |-> IF s \in ContextStages THEN reqs[i].cells[s]
                                  ELSE Pending]]

\* tool_agent.insert([row]) computes the row's columns before it returns.  The
\* two columns that read the chat history are each computed from the chat
\* history as it is at that moment, in either order, while other requests go
\* on writing to it.
SessEvalContext(i, s) ==
    /\ reqs[i].pc = "insert"
    /\ reqs[i].cells[s].st = "pending"
    /\ reqs' = [reqs EXCEPT ![i] =
                  [@ EXCEPT !.cells[s] = Value(StageValue(s, SessRow(i), SessRow(i).cells))]]
    /\ UNCHANGED clock
    /\ UNCHANGED <<retryVars, pipeVars, callVars, writeVars>>

\* tool_agent.insert([row]) returns: the other columns are computed from the
\* row alone, and the row is stored.  The table has no key, so the row is added
\* whatever rows it holds.
SessInsert(i) ==
    /\ reqs[i].pc = "insert"
    /\ \A s \in ContextStages : reqs[i].cells[s].st # "pending"
    /\ table' = table \cup
                   {[SessRow(i) EXCEPT !.cells = InTableOrder(SessRow(i), SessRow(i).cells, 1)]}
    /\ reqs' = [reqs EXCEPT ![i] = [@ EXCEPT !.pc = "readback"]]
    /\ UNCHANGED <<onError, fails, hasData, body, histFail, qPc, row, chat, result,
                   resp, lastRead>>
    /\ UNCHANGED clock
    /\ UNCHANGED <<retryVars, callVars, writeVars>>

\* The read-back: `result[0]` of the rows with the request's timestamp and owner,
\* which the select returns in no stated order; the 500 when there is none.
SessReadBack(i) ==
    /\ reqs[i].pc = "readback"
    /\ LET found == {x \in table : x.timestamp = reqs[i].ts /\ x.user_id = DEFAULT_USER_ID}
       IN  IF found = {}
           THEN reqs' = [reqs EXCEPT ![i] = [@ EXCEPT !.pc = "done", !.status = 500]]
           ELSE \E r \in found :
                   reqs' = [reqs EXCEPT ![i] =
                              [@ EXCEPT !.pc = "record_user", !.rowid = r.rowid,
                                        !.answer = In(r.cells, "answer")]]
    /\ UNCHANGED clock
    /\ UNCHANGED <<retryVars, pipeVars, callVars, writeVars>>

\* The user's turn, then the assistant's, go to the chat history; an error of
\* either insert is logged and dropped.  `by` names the request that wrote the
\* row (it is no column of the table).  The assistant's row is built with
\* `timestamp=datetime.now()`, a second reading of the clock, later than the
\* request's own timestamp, taken before the store's insert is called, so
\* other requests act between the reading and the insert.  After the last
\* insert the handler answers with the answer read back.
Answered(r) == [r EXCEPT !.pc = "done",
                         !.status = IF r.answer.kind = "str" THEN 200 ELSE 500]

\* A plausible slip: the user's turn is written before the record's insert.
SessRecordUserFirst(i, raises) ==
    /\ reqs[i].pc = "insert"
    /\ ~raises
    /\ \A k \in 1..Len(chat) : chat[k].by # i
    /\ chat' = InsertByTimestamp(chat,
                    [role |-> "user", content |-> reqs[i].prompt,
                     timestamp |-> reqs[i].ts, user_id |-> DEFAULT_USER_ID,
                     by |-> i])
    /\ UNCHANGED <<onError, fails, hasData, body, histFail, qPc, row, table, result,
                   resp, lastRead>>
    /\ UNCHANGED <<reqs, clock>>
    /\ UNCHANGED <<retryVars, callVars, writeVars>>

SessRecordUser(i, raises) ==
    /\ reqs[i].pc = "record_user"
    /\ chat' = IF raises THEN chat
               ELSE InsertByTimestamp(chat,
                        [role |-> "user", content |-> reqs[i].prompt,
                         timestamp |-> reqs[i].ts, user_id |-> DEFAULT_USER_ID,
                         by |-> i])
    /\ reqs' = [reqs EXCEPT ![i] =
                  IF ~raises /\ ValidAnswer(reqs[i].answer)
                  THEN [@ EXCEPT !.pc = "record_assistant"]
                  ELSE Answered(@)]
    /\ UNCHANGED <<onError, fails, hasData, body, histFail, qPc, row, table, result,
                   resp, lastRead>>
    /\ UNCHANGED clock
    /\ UNCHANGED <<retryVars, callVars, writeVars>>

SessAssistantRow(i, advance) ==
    /\ reqs[i].pc = "record_assistant"
    /\ clock + advance <= MaxClock
    /\ clock + advance > reqs[i].ts
    /\ clock' = clock + advance
    /\ reqs' = [reqs EXCEPT ![i] = [@ EXCEPT !.pc = "insert_assistant", !.now = clock']]
    /\ UNCHANGED <<retryVars, pipeVars, callVars, writeVars>>

SessRecordAssistant(i, raises) ==
    /\ reqs[i].pc = "insert_assistant"
    /\ chat' = IF raises THEN chat
               ELSE InsertByTimestamp(chat,
                        [role |-> "assistant", content |-> reqs[i].answer.s,
                         timestamp |-> reqs[i].now, user_id |-> DEFAULT_USER_ID,
                         by |-> i])
    /\ reqs' = [reqs EXCEPT ![i] = Answered(@)]
    /\ UNCHANGED <<onError, fails, hasData, body, histFail, qPc, row, table, result,
                   resp, lastRead>>
    /\ UNCHANGED clock
    /\ UNCHANGED <<retryVars, callVars, writeVars>>

SessionsNext ==
    \/ \E i \in Requests, q \in SessPrompts, advance \in {0, 1} :
           SessSubmit(i, q, advance)
    \/ \E i \in Requests, s \in ContextStages : SessEvalContext(i, s)
    \/ \E i \in Requests : SessInsert(i)
    \/ \E t \in TimestampStrs : delete_history_entry(t)
    \/ \E i \in Requests : SessReadBack(i)
    \/ \E i \in Requests, raises \in BOOLEAN : SessRecordUser(i, raises)
    \/ \E i \in Requests, advance \in {0, 1} : SessAssistantRow(i, advance)
    \/ \E i \in Requests, raises \in BOOLEAN : SessRecordAssistant(i, raises)

SpecSessions == SessionsInit /\ [][SessionsNext]_vars

\* Request i has inserted its row.
Inserted(i) ==
    reqs[i].pc \in {"readback", "record_user", "record_assistant", "insert_assistant", "done"}

\* The row request i inserted is still there.
Stored(i) == \E r \in table : r.rowid = i

\* The row request i inserted.
RowOf(i) == CHOOSE r \in table : r.rowid = i

\* C12: after any submissions, concurrent ones of one owner included, there is
\* exactly one record with each submission's (timestamp, owner), and the
\* read-back of a submission gives its own record (as long as the submission's
\* record has not been deleted).
C12_OneRecordPerKey ==
    \A i \in Requests :
        (Inserted(i) /\ Stored(i)) =>
            /\ Cardinality({r \in table : r.timestamp = reqs[i].ts
                                            /\ r.user_id = DEFAULT_USER_ID}) = 1
            /\ reqs[i].pc # "readback" => reqs[i].rowid = i

\* C13, as stated: the derived attributes of a record do not depend on the other
\* queries its owner submitted or completed before: two records with the same
\* prompt and settings have the same derived attributes.
C13_RecordsIndependent ==
    \A r1 \in table, r2 \in table :
        (r1.prompt = r2.prompt /\ r1.initial_system_prompt = r2.initial_system_prompt
           /\ r1.final_system_prompt = r2.final_system_prompt) =>
            r1.cells = r2.cells

\* The two context columns of request i's row: as computed, or as the insert
\* would compute them now.
ContextNow(i) ==
    [s \in ContextStages |->
        IF reqs[i].cells[s].st = "pending"
        THEN Value(StageValue(s, SessRow(i), SessRow(i).cells))
        ELSE reqs[i].cells[s]]

\* The derived attributes the row of request i gets from its own fields and
\* its context columns, evaluated as things are now.
Computes(i) == InTableOrder(SessRow(i), SessRow(i).cells, 1)

\* C13, amended: a query record is independent of every other query record.
\* While a record is being computed, no step of another request that leaves
\* the chat history as it is (another query submitted, its record stored, read
\* back or deleted, in whatever order) changes what its history context and
\* its chat-history retrieval will be; a stored record is changed by no later
\* step; and its other derived attributes are those its own fields and its two
\* context columns give, whatever has been stored, deleted or written since.
\* The owner's other queries reach a record only through the chat-history rows
\* they wrote before its two context columns were computed.
C13_IndependentOfOtherRecords ==
    /\ [][/\ \A i \in Requests :
                (reqs[i].pc = "insert" /\ reqs'[i] = reqs[i] /\ chat' = chat) =>
                    ContextNow(i)' = ContextNow(i)
          /\ \A r \in table, r2 \in table' : r2.rowid = r.rowid => r2 = r]_vars
    /\ [](\A i \in Requests : (Inserted(i) /\ Stored(i)) => RowOf(i).cells = Computes(i))

\* The first request's record, of the same prompt, is stored while the insert
\* of the second has computed one of its two context columns and not yet the
\* other; the first request has recorded no turn.
C13_Witness ==
    /\ reqs[1].pc = "readback"
    /\ Stored(1)
    /\ reqs[2].pc = "insert"
    /\ reqs[2].prompt = reqs[1].prompt
    /\ reqs[2].cells["chat_memory_context"].st = "value"
    /\ reqs[2].cells["history_context"].st = "pending"
    /\ chat = <<>>

\* A context item is the role and the content of the chat-history row x.
ItemOf(item, x) == item.role = Str(x.role) /\ item.content = Str(x.content)

\* C28: the history context (stage 4) and the chat-history retrieval (stage
\* 3e) of a query's record never hold that query's own user row or assistant
\* row.  The query writes its chat-history rows only after its insert has
\* returned; each of the two columns, when it is computed, holds only turns of
\* rows that other queries had written to the chat history by then; and the
\* stored record holds the two columns as they were computed.
C28_OwnTurnsNotInContext ==
    /\ [](\A i \in Requests :
             reqs[i].pc \in {"start", "insert"} =>
                 \A k \in 1..Len(chat) : chat[k].by # i)
    /\ [][\A i \in Requests, s \in ContextStages :
             (reqs[i].cells[s].st = "pending" /\ reqs'[i].cells[s].st = "value") =>
                 LET items == reqs'[i].cells[s].v.items
                 IN  \A n \in 1..Len(items) :
                         \E k \in 1..Len(chat) :
                             chat[k].by # i /\ ItemOf(items[n], chat[k])]_vars
    /\ [](\A i \in Requests :
             (Inserted(i) /\ Stored(i)) =>
                 \A s \in ContextStages : RowOf(i).cells[s] = reqs[i].cells[s])

\* The second request's insert computed its chat-history retrieval when the
\* chat history held the user turn of the first, whose prompt was the same,
\* and its history context after the first had written its answer as well:
\* the retrieval holds the first request's prompt and the history context its
\* two turns; since then the second request has written its own two turns,
\* the assistant's with a later clock reading than its own timestamp.
C28_Witness ==
    /\ \A i \in Requests : reqs[i].pc = "done" /\ Stored(i)
    /\ Len(chat) = 4
    /\ reqs[1].prompt = reqs[2].prompt
    /\ Len(RowOf(2).cells["history_context"].v.items) = 2
    /\ Len(RowOf(2).cells["chat_memory_context"].v.items) = 1
    /\ \E n \in 1..Len(chat) :
          chat[n].by = 2 /\ chat[n].role = "assistant" /\ chat[n].timestamp > reqs[2].ts

(***************************************************************************)
(* Concurrent write requests of one owner: POST /api/personas               *)
(* (backend/routers/personas.py) and POST /api/memory                       *)
(* (backend/routers/memory.py), while other requests update and delete     *)
(* personas and delete memory items.  None of these handlers goes through  *)
(* pxt_retry.  A text is a sequence of words, " " being white space.       *)
(***************************************************************************)
Writers == {"w1", "w2"}

RECURSIVE lstrip(_)
lstrip(text) ==
    IF text # <<>> /\ text[1] = " " THEN lstrip(Tail(text)) ELSE text

\* str.strip()
strip(text) == Reverse(lstrip(Reverse(lstrip(text))))

\* str.lower(), word by word.
lower(text) ==
    [k \in 1..Len(text) |->
        CASE text[k] = "UNIQUE" -> "unique"
          [] text[k] = "Duplicate" -> "duplicate"
          [] OTHER -> text[k]]

\* The persona names and the memory items requests carry.
PersonaNames == {<<>>, <<" ">>, <<"sage">>, <<" ", "sage">>}

MemoryBodies ==
    { [type |-> "text", language |-> Str("python")],
      [type |-> "code", language |-> NoneVal],
      [type |-> "code", language |-> Str("")],
      [type |-> "code", language |-> Str("python")],
      [type |-> "image", language |-> NoneVal] }

WriteRequests ==
    {[op |-> "create_persona",
      body |-> [persona_name |-> n, initial_prompt |-> "be wise",
                final_prompt |-> "answer wisely", llm_params |-> [kind |-> "dict"]]] :
        n \in PersonaNames}
    \cup {[op |-> "save_memory", body |-> b] : b \in MemoryBodies}

\* What datetime.now() gives a request.
Times == {1, 2}

\* A request as it arrives; `inserted` counts the rows its inserts have added.
FreshWrite(r) ==
    [op |-> r.op, body |-> r.body, pc |-> "start", attempt |-> 0, tries |-> 0,
     slept |-> 0, last_error |-> NoneVal, inserted |-> 0, resp |-> NoneVal]

WritesInit ==
    /\ wReqs \in [Writers -> {FreshWrite(r) : r \in WriteRequests}]
    /\ personas = <<>>
    /\ memory = <<>>
    /\ wResp = NoneVal
    /\ RetryIdle
    /\ PipeIdle
    /\ CallIdle
    /\ SessIdle

\* What the caller of a write request gets.
Created(message) == [status |-> 201, detail |-> message]

\* create_persona, up to the insert: 400 for a name that is blank once stripped.
PersonaValidate(w) ==
    /\ wReqs[w].op = "create_persona"
    /\ wReqs[w].pc = "start"
    /\ wReqs' = [wReqs EXCEPT ![w] =
                   IF strip(@.body.persona_name) = <<>>
                   THEN [@ EXCEPT !.pc = "done",
                                  !.resp = HTTPError(400, <<"Persona", "name", "cannot", "be", "empty">>)]
                   ELSE [@ EXCEPT !.pc = "get_table"]]
    /\ UNCHANGED <<personas, memory, wResp>>
    /\ UNCHANGED <<retryVars, pipeVars, callVars, sessVars>>

\* What a call of the store can raise: the AssertionError of a contended
\* connection (the error pxt_retry is written for) or another error.
StoreErrors ==
    {Exc("AssertionError", <<>>), Exc("RuntimeError", <<"transaction", "conflict">>)}

\* create_persona, pxt.get_table("agents.user_personas"): the table, or an
\* error, which the outer `except Exception` turns into a 500.
PersonaGetTable(w, outcome) ==
    /\ wReqs[w].op = "create_persona"
    /\ wReqs[w].pc = "get_table"
    /\ outcome \in {Val("ok")} \cup StoreErrors
    /\ wReqs' = [wReqs EXCEPT ![w] =
                   IF IsVal(outcome) THEN [@ EXCEPT !.pc = "insert"]
                   ELSE [@ EXCEPT !.pc = "done", !.last_error = outcome,
                                  !.resp = HTTPError(500, ExcStr(outcome))]]
    /\ UNCHANGED <<personas, memory, wResp>>
    /\ UNCHANGED <<retryVars, pipeVars, callVars, sessVars>>

\* The rows the table holds for an owner and a name.
SameKey(rows, user_id, name) ==
    {k \in 1..Len(rows) : rows[k].user_id = user_id /\ rows[k].persona_name = name}

\* What personas_table.insert can do: add the row, or raise.  The setup drops
\* the namespace and creates agents.user_personas without a key, so the store
\* has no uniqueness to violate: a row is added whatever rows the table holds.
PersonaInsertOutcomes(w) == {Val("ok")} \cup StoreErrors

\* `"unique constraint" in err_str or "primary key constraint" in err_str`
IsConflict(insert_err) ==
    LET err_str == lower(ExcStr(insert_err))
    IN  \/ Contains(err_str, <<"unique", "constraint">>)
        \/ Contains(err_str, <<"primary", "key", "constraint">>)

\* create_persona, the insert and the answer: 201, or 409 for a uniqueness
\* violation, or 500 for any other error.
PersonaInsert(w, outcome, now) ==
    /\ wReqs[w].op = "create_persona"
    /\ wReqs[w].pc = "insert"
    /\ outcome \in PersonaInsertOutcomes(w)
    /\ personas' = IF IsVal(outcome)
                   THEN Append(personas,
                               [user_id |-> DEFAULT_USER_ID,
                                persona_name |-> strip(wReqs[w].body.persona_name),
                                initial_prompt |-> wReqs[w].body.initial_prompt,
                                final_prompt |-> wReqs[w].body.final_prompt,
                                llm_params |-> wReqs[w].body.llm_params,
                                timestamp |-> now,
                                by |-> w])
                   ELSE personas
    /\ wReqs' = [wReqs EXCEPT ![w] =
                   [@ EXCEPT !.pc = "done",
                             !.tries = 1,
                             !.inserted = IF IsVal(outcome) THEN 1 ELSE 0,
                             !.last_error = IF IsExc(outcome) THEN outcome ELSE NoneVal,
                             !.resp =
                                IF IsVal(outcome)
                                THEN Created(<<"Persona">> \o wReqs[w].body.persona_name
                                                \o <<"created", "successfully">>)
                                ELSE IF IsConflict(outcome)
                                THEN HTTPError(409, <<"Persona">> \o wReqs[w].body.persona_name
                                                       \o <<"already", "exists">>)
                                ELSE HTTPError(500, ExcStr(outcome))]]
    /\ UNCHANGED <<memory, wResp>>
    /\ UNCHANGED <<retryVars, pipeVars, callVars, sessVars>>

\* The names update and delete requests carry in their path, and the body of
\* an update.
PathNames == {<<>>, <<"sage">>}

PersonaUpdate ==
    [initial_prompt |-> "be brief", final_prompt |-> "answer briefly",
     llm_params |-> [kind |-> "dict", max_tokens |-> 2048]]

\* update_persona, by another request at any moment: 400 for an empty name,
\* 404 when the owner has no row of that name; else every such row gets the
\* prompts and parameters of the body and the time of the update.
update_persona(persona_name, item, now) ==
    /\ LET hit == SameKey(personas, DEFAULT_USER_ID, persona_name)
       IN  IF persona_name = <<>>
           THEN /\ wResp' = HTTPError(400, <<"Persona", "name", "is", "required">>)
                /\ UNCHANGED personas
           ELSE IF hit = {}
           THEN /\ wResp' = HTTPError(404, <<"Persona", "not", "found">>)
                /\ UNCHANGED personas
           ELSE /\ personas' =
                      [k \in 1..Len(personas) |->
                          IF k \in hit
                          THEN [personas[k] EXCEPT !.initial_prompt = item.initial_prompt,
                                                   !.final_prompt = item.final_prompt,
                                                   !.llm_params = item.llm_params,
                                                   !.timestamp = now]
                          ELSE personas[k]]
                /\ wResp' = [status |-> 200,
                             detail |-> <<"Persona">> \o persona_name
                                           \o <<"updated", "successfully">>]
    /\ UNCHANGED <<wReqs, memory>>
    /\ UNCHANGED <<retryVars, pipeVars, callVars, sessVars>>

\* delete_persona, by another request at any moment: 400 for an empty name,
\* 404 when the owner has no row of that name; else every such row goes.
delete_persona(persona_name) ==
    /\ LET hit == SameKey(personas, DEFAULT_USER_ID, persona_name)
           Stays(r) == ~(r.user_id = DEFAULT_USER_ID /\ r.persona_name = persona_name)
       IN  IF persona_name = <<>>
           THEN /\ wResp' = HTTPError(400, <<"Persona", "name", "is", "required">>)
                /\ UNCHANGED personas
           ELSE IF hit = {}
           THEN /\ wResp' = HTTPError(404, <<"Persona", "not", "found">>)
                /\ UNCHANGED personas
           ELSE /\ personas' = SelectSeq(personas, Stays)
                /\ wResp' = [status |-> 200,
                             detail |-> <<"Persona">> \o persona_name
                                           \o <<"deleted", "successfully">>,
                             num_deleted |-> Cardinality(hit)]
    /\ UNCHANGED <<wReqs, memory>>
    /\ UNCHANGED <<retryVars, pipeVars, callVars, sessVars>>

max_retries == 3

\* _insert_memory, up to the loop: 400 for an unknown type; otherwise the
\* language the row gets.
Language(item) ==
    IF item.type = "text" THEN NoneVal
    ELSE IF ~Truthy(item.language) THEN Str("text") ELSE item.language

MemoryValidate(w) ==
    /\ wReqs[w].op = "save_memory"
    /\ wReqs[w].pc = "start"
    /\ wReqs' = [wReqs EXCEPT ![w] =
                   IF @.body.type \notin {"code", "text"}
                   THEN [@ EXCEPT !.pc = "done",
                                  !.resp = HTTPError(400, <<"type", "must", "be", "code", "or", "text">>)]
                   ELSE [@ EXCEPT !.pc = "insert"]]
    /\ UNCHANGED <<personas, memory, wResp>>
    /\ UNCHANGED <<retryVars, pipeVars, callVars, sessVars>>

\* What get_table and memory_table.insert can do in one attempt.
MemoryInsertOutcomes ==
    {Val("ok"), Exc("AssertionError", <<>>),
     Exc("RuntimeError", <<"transaction", "conflict">>),
     Exc("Error", <<"column", "not", "found">>)}

\* A plausible slip: every exception is retried.
RetriedAlways(e) == TRUE

\* `except (AssertionError, RuntimeError)`
Retried(e) == e.type \in {"AssertionError", "RuntimeError"}

\* One attempt of the loop `for attempt in range(max_retries)`: the insert and
\* the 201; or a retried error, which leads to the sleep; or another error and
\* its 500.
MemoryAttempt(w, outcome, now) ==
    /\ wReqs[w].op = "save_memory"
    /\ wReqs[w].pc = "insert"
    /\ wReqs[w].attempt < max_retries
    /\ outcome \in MemoryInsertOutcomes
    /\ memory' = IF IsVal(outcome)
                 THEN Append(memory,
                             [type |-> wReqs[w].body.type,
                              language |-> Language(wReqs[w].body),
                              timestamp |-> now,
                              user_id |-> DEFAULT_USER_ID, by |-> w])
                 ELSE memory
    /\ wReqs' = [wReqs EXCEPT ![w] =
                   IF IsVal(outcome)
                   THEN [@ EXCEPT !.pc = "done", !.tries = @ + 1, !.inserted = @ + 1,
                                  !.resp = Created(<<"Memory", "item", "saved", "successfully">>)]
                   ELSE IF Retried(outcome)
                   THEN [@ EXCEPT !.pc = "sleep", !.tries = @ + 1, !.last_error = outcome]
                   ELSE [@ EXCEPT !.pc = "done", !.tries = @ + 1,
                                  !.last_error = outcome,
                                  !.resp = HTTPError(500, ExcStr(outcome))]]
    /\ UNCHANGED <<personas, wResp>>
    /\ UNCHANGED <<retryVars, pipeVars, callVars, sessVars>>

\* time.sleep(0.5 * (attempt + 1)), in half seconds, and the next pass of the
\* loop, or its end.
MemorySleep(w) ==
    /\ wReqs[w].op = "save_memory"
    /\ wReqs[w].pc = "sleep"
    /\ wReqs' = [wReqs EXCEPT ![w] =
                   [@ EXCEPT !.slept = @ + (wReqs[w].attempt + 1),
                             !.attempt = @ + 1,
                             !.pc = IF wReqs[w].attempt + 1 < max_retries
                                    THEN "insert" ELSE "raise"]]
    /\ UNCHANGED <<personas, memory, wResp>>
    /\ UNCHANGED <<retryVars, pipeVars, callVars, sessVars>>

\* After the loop: the 500 with the last error.
MemoryGiveUp(w) ==
    /\ wReqs[w].op = "save_memory"
    /\ wReqs[w].pc = "raise"
    /\ wReqs' = [wReqs EXCEPT ![w] =
                   [@ EXCEPT !.pc = "done",
                             !.resp = HTTPError(500, ExcStr(wReqs[w].last_error))]]
    /\ UNCHANGED <<personas, memory, wResp>>
    /\ UNCHANGED <<retryVars, pipeVars, callVars, sessVars>>

\* What the callers of delete_memory put in the path.
MemoryTimestampStrs ==
    {"2025-01-01 00:00:01.000000", "2025-01-01 00:00:02.0", "2025-01-01 00:00:02"}

\* delete_memory, by another request at any moment: 400 for a timestamp that
\* is not "%Y-%m-%d %H:%M:%S.%f", 404 when the owner has no item with it; else
\* every such item goes.
delete_memory(timestamp_str) ==
    /\ LET target_timestamp == strptime(timestamp_str, TRUE)
           Hit(r) == Moment(r.timestamp) = target_timestamp /\ r.user_id = DEFAULT_USER_ID
           Stays(r) == ~Hit(r)
           num_rows == Len(SelectSeq(memory, Hit))
       IN  IF target_timestamp = NoneVal
           THEN /\ wResp' = HTTPError(400, <<"Invalid", "timestamp", "format">>)
                /\ UNCHANGED memory
           ELSE IF num_rows = 0
           THEN /\ wResp' = HTTPError(404, <<"No", "memory", "item", "found", "with",
                                             "that", "timestamp">>)
                /\ UNCHANGED memory
           ELSE /\ memory' = SelectSeq(memory, Stays)
                /\ wResp' = [status |-> 200, detail |-> <<"Memory", "item", "deleted">>,
                             num_deleted |-> num_rows]
    /\ UNCHANGED <<wReqs, personas>>
    /\ UNCHANGED <<retryVars, pipeVars, callVars, sessVars>>

WritesNext ==
    \/ \E w \in Writers : PersonaValidate(w)
    \/ \E w \in Writers, outcome \in {Val("ok")} \cup StoreErrors :
           PersonaGetTable(w, outcome)
    \/ \E w \in Writers, outcome \in {Val("ok")} \cup StoreErrors, now \in Times :
           PersonaInsert(w, outcome, now)
    \/ \E n \in PathNames, now \in Times : update_persona(n, PersonaUpdate, now)
    \/ \E n \in PathNames : delete_persona(n)
    \/ \E w \in Writers : MemoryValidate(w)
    \/ \E w \in Writers, outcome \in MemoryInsertOutcomes, now \in Times :
           MemoryAttempt(w, outcome, now)
    \/ \E w \in Writers : MemorySleep(w)
    \/ \E w \in Writers : MemoryGiveUp(w)
    \/ \E t \in MemoryTimestampStrs : delete_memory(t)

SpecWrites == WritesInit /\ [][WritesNext]_vars

\* Both requests create a persona of the same owner and (stripped, not blank)
\* name, and both have answered.
PersonaRace ==
    /\ \A w \in Writers :
          /\ wReqs[w].op = "create_persona"
          /\ wReqs[w].pc = "done"
          /\ strip(wReqs[w].body.persona_name) = <<"sage">>

Status(w) == wReqs[w].resp.status

\* The rows of a table a request stored.
StoredBy(rows, w) == {k \in 1..Len(rows) : rows[k].by = w}

\* No update or delete request has been served so far.
Untouched == wResp = NoneVal

\* C23: when two create requests of the same owner and persona name race
\* (nothing is deleted, and the store raises at most the errors of a contended
\* connection), either both succeed or one of them fails with a conflict error
\* (409); the writes are not merged (one row per success) and a request that
\* reports success has stored its own row.
C23_BothSucceedOrConflict ==
    (PersonaRace /\ Untouched
       /\ \A w \in Writers :
              wReqs[w].last_error # NoneVal => _is_transient(wReqs[w].last_error)) =>
        /\ \/ \A w \in Writers : Status(w) = 201
           \/ \E w \in Writers : Status(w) = 409
        /\ Len(personas) = Cardinality({w \in Writers : Status(w) = 201})
        /\ \A w \in Writers : Status(w) = 201 => StoredBy(personas, w) # {}

\* C30: a memory-save request makes at most 3 attempts and goes on to another
\* only after an AssertionError or a RuntimeError; its inserts add at most one
\* row (which is there until a memory item is deleted) and it answers 201
\* exactly when an attempt succeeded; another exception ends it at once with a
\* 500 carrying that error, and three failed attempts end it with a 500
\* carrying the last error; an unknown type is refused (400) without an
\* attempt.
C30_MemorySaveRetries ==
    \A w \in Writers :
        wReqs[w].op = "save_memory" =>
            LET r == wReqs[w]
                stored == Cardinality(StoredBy(memory, w))
            IN  /\ r.tries <= 3
                /\ r.inserted <= 1
                /\ stored <= r.inserted
                /\ Untouched => stored = r.inserted
                /\ (r.pc \in {"insert", "sleep", "raise"} /\ r.tries > 0) =>
                      /\ r.last_error.type \in {"AssertionError", "RuntimeError"}
                      /\ r.inserted = 0
                /\ r.pc = "raise" => r.tries = 3
                /\ r.pc = "done" =>
                      /\ r.resp.status \in {201, 400, 500}
                      /\ r.resp.status = 201 <=> r.inserted = 1
                      /\ r.resp.status = 400 <=> r.tries = 0
                      /\ r.resp.status = 500 =>
                            /\ r.resp.detail = ExcStr(r.last_error)
                            /\ r.last_error.type \in {"AssertionError", "RuntimeError"}
                                  => r.tries = 3
                      /\ (r.tries = 3 /\ r.inserted = 0) =>
                            /\ r.resp.status = 500
                            /\ r.resp.detail = ExcStr(r.last_error)

\* A request has made three attempts, the last of which failed, and has slept
\* 3 s in all but not answered yet, while the other, after an AssertionError
\* and a RuntimeError and 1.5 s of sleep, stored its row on the third attempt
\* and answered 201.
C30_Witness ==
    /\ wReqs["w1"].op = "save_memory" /\ wReqs["w1"].pc = "done"
    /\ wReqs["w1"].tries = 3
    /\ wReqs["w1"].slept = 3
    /\ wReqs["w1"].last_error.type = "RuntimeError"
    /\ wReqs["w1"].resp.status = 201
    /\ StoredBy(memory, "w1") # {}
    /\ wReqs["w2"].op = "save_memory" /\ wReqs["w2"].pc = "raise"
    /\ wReqs["w2"].tries = 3
    /\ wReqs["w2"].slept = 6
    /\ wReqs["w2"].resp = NoneVal

====
